---------------------------- MODULE Spec2Model ----------------------------
(***************************************************************************)
(* go-switcher: scope-aware active-version resolution, atomic state        *)
(* persistence, the archive acquisition / verification / extraction        *)
(* pipeline and the TUI's progress bridge, as state machines.              *)
(*                                                                         *)
(* Strings whose characters matter (version strings, checksums, file       *)
(* contents) are sequences of one-character strings, so that trimming,     *)
(* splitting, parsing and formatting are computed as the code computes     *)
(* them.                                                                   *)
(***************************************************************************)
EXTENDS Integers, Sequences, FiniteSets, TLC

VARIABLES
    \* --- scope resolution (internal/switcher/state.go, config.go)
    pinFiles,     \* directory depth -> state of its .switcher-version file
    cfgFile,      \* state of config.json
    res,          \* outcome of the last operation of the resolver
    \* --- atomic file write (internal/switcher/config.go)
    destFile,     \* content at the destination path
    tmpFiles,     \* temp-file name -> content
    writers,      \* writer -> its position in writeFileAtomically
    \* --- archive extraction (install package, extractGoArchive)
    xfs,          \* physical path -> filesystem object
    xpc,          \* position in extractGoArchive
    xdone,        \* archive entries processed so far
    xhist,        \* what the extraction has done (history)
    \* --- install pipeline (install package, app.Service.InstallWithProgress)
    cache,        \* archive filename (by version) -> cached file
    toolchains,   \* version -> state of its toolchain directory
    ipc,          \* position in InstallWithProgress / InstallGoArchive
    icall,        \* the call in progress and what it has done
    \* --- TUI progress bridge (tui package)
    m,            \* the bubbletea model's fields
    workers,      \* workflow -> position of its background goroutine
    progressCh,   \* workflow -> [buf, closed] of its event channel
    doneCh,       \* workflow -> [buf, closed] of its result channel
    waiters,      \* workflow (or Nil) -> outstanding waitAsyncCmd closures
    mailbox,      \* messages on their way to Update
    bridge,       \* what the consumer has received (history)
    \* --- orchestration (internal/app/service.go): Use, SyncTools, DeleteInstalled
    lintBins,     \* golangci-lint versions whose binary is present
    scall,        \* the service call in progress and what it has done
    \* --- the entry of the service's operations (internal/app/service.go)
    ecall,        \* the last call: its input, its error, the accesses it made
    \* --- functions of versions (versionutil, tools/compat.go, ListInstalledVersions)
    fcall,        \* the last application: the function, its argument, its result
    \* --- the download of an archive (install package and tools, downloadToFile)
    dlFiles,      \* the destination path and the temporary file beside it
    dcall,        \* the call of downloadToFile: its position and what it holds
    \* --- the TUI's list, search and cursor (tui package, Update, handleKey)
    ui,           \* the model's fields that the list and the cursor depend on
    cmds          \* the commands issued whose message has not arrived yet

resolveVars == <<pinFiles, cfgFile, res>>
writeVars   == <<destFile, tmpFiles, writers>>
extractVars == <<xfs, xpc, xdone, xhist>>
installVars == <<cache, toolchains, ipc, icall>>
tuiVars     == <<m, workers, progressCh, doneCh, waiters, mailbox, bridge>>
serviceVars == <<lintBins, scall>>
entryVars   == <<ecall>>
functionVars == <<fcall>>
downloadVars == <<dlFiles, dcall>>
cursorVars == <<ui, cmds>>
vars == <<resolveVars, writeVars, extractVars, installVars, tuiVars, serviceVars, entryVars,
          functionVars, downloadVars, cursorVars>>

\* Each component is checked on its own, the variables of the others at rest.
otherThanResolve == <<writeVars, extractVars, installVars, tuiVars, serviceVars, entryVars,
                     functionVars, downloadVars, cursorVars>>
otherThanWrite   == <<resolveVars, extractVars, installVars, tuiVars, serviceVars, entryVars,
                     functionVars, downloadVars, cursorVars>>
otherThanExtract == <<resolveVars, writeVars, installVars, tuiVars, serviceVars, entryVars,
                     functionVars, downloadVars, cursorVars>>
otherThanInstall == <<resolveVars, writeVars, extractVars, tuiVars, serviceVars, entryVars,
                     functionVars, downloadVars, cursorVars>>
otherThanService == <<res, writeVars, extractVars, cache, ipc, icall, tuiVars, entryVars,
                     functionVars, downloadVars, cursorVars>>
otherThanEntry   == <<res, writeVars, extractVars, installVars, tuiVars, serviceVars,
                     functionVars, downloadVars, cursorVars>>
otherThanFunctions == <<resolveVars, writeVars, extractVars, installVars, tuiVars,
                       serviceVars, entryVars, downloadVars, cursorVars>>
otherThanDownload == <<resolveVars, writeVars, extractVars, installVars, tuiVars,
                      serviceVars, entryVars, functionVars, cursorVars>>
otherThanCursor == <<resolveVars, writeVars, extractVars, installVars, tuiVars,
                    serviceVars, entryVars, functionVars, downloadVars>>
otherThanTui     == <<resolveVars, writeVars, extractVars, installVars, serviceVars, entryVars,
                     functionVars, downloadVars, cursorVars>>

Nil == "nil"

(***************************************************************************)
(* Strings as character sequences                                          *)
(***************************************************************************)
Digits == <<"0", "1", "2", "3", "4", "5", "6", "7", "8", "9">>

IsDigit(c) == \E i \in 1..10 : Digits[i] = c

DigitVal(c) == (CHOOSE i \in 1..10 : Digits[i] = c) - 1

IsSpace(c) == c \in {" ", "\n", "\t", "\r"}

RECURSIVE TrimLeft(_)
TrimLeft(s) ==
    IF s # <<>> /\ IsSpace(Head(s)) THEN TrimLeft(Tail(s)) ELSE s

RECURSIVE TrimRight(_)
TrimRight(s) ==
    IF s # <<>> /\ IsSpace(s[Len(s)]) THEN TrimRight(SubSeq(s, 1, Len(s) - 1)) ELSE s

\* strings.TrimSpace
TrimSpace(s) == TrimRight(TrimLeft(s))

HasPrefix(s, p) == Len(s) >= Len(p) /\ SubSeq(s, 1, Len(p)) = p

\* strings.TrimPrefix
TrimPrefix(s, p) == IF HasPrefix(s, p) THEN SubSeq(s, Len(p) + 1, Len(s)) ELSE s

\* strings.Split(s, sep) for a one-character separator: always at least one part
RECURSIVE Split(_, _)
Split(s, sep) ==
    IF \A i \in 1..Len(s) : s[i] # sep
    THEN <<s>>
    ELSE LET k == CHOOSE i \in 1..Len(s) : s[i] = sep /\ \A j \in 1..(i - 1) : s[j] # sep
         IN  <<SubSeq(s, 1, k - 1)>> \o Split(SubSeq(s, k + 1, Len(s)), sep)

RECURSIVE DigitsValue(_)
DigitsValue(s) ==
    IF s = <<>> THEN 0 ELSE DigitsValue(SubSeq(s, 1, Len(s) - 1)) * 10 + DigitVal(s[Len(s)])

\* strconv.Atoi: an optional sign, then one or more decimal digits
Atoi(s) ==
    LET signed == s # <<>> /\ Head(s) \in {"+", "-"}
        body   == IF signed THEN Tail(s) ELSE s
    IN  IF body = <<>> \/ \E i \in 1..Len(body) : ~IsDigit(body[i])
        THEN [ok |-> FALSE, n |-> 0]
        ELSE [ok |-> TRUE,
              n  |-> IF signed /\ Head(s) = "-" THEN 0 - DigitsValue(body) ELSE DigitsValue(body)]

\* the %d verb for a non-negative integer
RECURSIVE Itoa(_)
Itoa(n) == IF n < 10 THEN <<Digits[n + 1]>> ELSE Itoa(n \div 10) \o <<Digits[(n % 10) + 1]>>

(***************************************************************************)
(* versionutil.NormalizeGoVersion                                          *)
(***************************************************************************)
NoVersion == [ok |-> FALSE, v |-> <<>>]

\* The formatting as a bug would have it: the patch of a version of two
\* parts is taken from the part before it.
NormalizeParts_PatchCopied(parts) ==
    LET nums == [i \in 1..Len(parts) |-> Atoi(parts[i])]
    IN  IF \E i \in 1..Len(parts) : ~nums[i].ok \/ nums[i].n < 0
        THEN NoVersion
        ELSE [ok |-> TRUE,
              v  |-> <<"g", "o">> \o Itoa(nums[1].n) \o <<".">> \o Itoa(nums[2].n) \o <<".">>
                     \o Itoa(nums[Len(parts)].n)]

NormalizeParts(parts) ==
    LET nums == [i \in 1..Len(parts) |-> Atoi(parts[i])]
    IN  IF \E i \in 1..Len(parts) : ~nums[i].ok \/ nums[i].n < 0
        THEN NoVersion
        ELSE [ok |-> TRUE,
              v  |-> <<"g", "o">> \o Itoa(nums[1].n) \o <<".">> \o Itoa(nums[2].n) \o <<".">>
                     \o Itoa(IF Len(parts) = 2 THEN 0 ELSE nums[3].n)]

NormalizeGoVersion(input) ==
    LET trimmed == TrimSpace(input)
        parts   == Split(TrimPrefix(trimmed, <<"g", "o">>), ".")
    IN  IF trimmed = <<>> THEN NoVersion
        ELSE IF Len(parts) < 2 \/ Len(parts) > 3 THEN NoVersion
        ELSE NormalizeParts(parts)

(***************************************************************************)
(* Scope resolution                                                        *)
(*                                                                         *)
(* The directories on the path from the filesystem root (depth 0) down to  *)
(* depth MaxDepth; the parent of depth d is d - 1 and the root is its own  *)
(* parent, as filepath.Dir("/") = "/".                                     *)
(***************************************************************************)
MaxDepth == 1

Dirs == 0..MaxDepth

Parent(d) == IF d = 0 THEN 0 ELSE d - 1

ScopeLocal == "local"
ScopeGlobal == "global"

ErrNoActiveVersion == "ErrNoActiveVersion"
ErrOther == "error"
NoErr == "none"

S_go1250 == <<"g", "o", "1", ".", "2", "5", ".", "0">>
S_go1240 == <<"g", "o", "1", ".", "2", "4", ".", "0">>
S_124    == <<"1", ".", "2", "4">>
S_latest == <<"l", "a", "t", "e", "s", "t">>
S_rc     == <<"g", "o", "1", ".", "2", "5", "r", "c", "1">>

\* A pin file is absent, unreadable (a directory, no permission: ReadFile fails
\* with an error that is not IsNotExist), or a regular file with some content.
PinAbsent == [kind |-> "absent", content |-> <<>>]
PinUnreadable == [kind |-> "unreadable", content |-> <<>>]
PinFile(c) == [kind |-> "file", content |-> c]

\* Version strings a caller may pass: normalized, short, and malformed ones.
VersionInputs == {S_go1250, S_124, S_latest}

InitPinStates ==
    {PinAbsent, PinUnreadable,
     PinFile(S_go1250 \o <<"\n">>), PinFile(S_124 \o <<"\n">>), PinFile(S_rc)}

\* config.json is absent, not decodable, or a document.
CfgAbsent == [kind |-> "absent", GlobalVersion |-> <<>>]
CfgCorrupt == [kind |-> "corrupt", GlobalVersion |-> <<>>]
CfgDoc(g) == [kind |-> "doc", GlobalVersion |-> g]

InitCfgStates == {CfgAbsent, CfgCorrupt, CfgDoc(<<>>), CfgDoc(S_go1240), CfgDoc(S_latest)}

\* ReadConfig as a bug would have it: a missing config file is an error.
ReadConfig_MissingIsError(file) ==
    CASE file.kind = "doc" -> [err |-> NoErr, GlobalVersion |-> file.GlobalVersion]
      [] OTHER             -> [err |-> ErrOther, GlobalVersion |-> <<>>]

\* switcher.ReadConfig
ReadConfig(file) ==
    CASE file.kind = "absent"  -> [err |-> NoErr, GlobalVersion |-> <<>>]
      [] file.kind = "corrupt" -> [err |-> ErrOther, GlobalVersion |-> <<>>]
      [] OTHER                 -> [err |-> NoErr, GlobalVersion |-> file.GlobalVersion]

\* A working directory argument: a directory, or a file inside it.
Cwds == [dir : Dirs, isFile : BOOLEAN]

NotFound == [err |-> NoErr, found |-> FALSE, version |-> <<>>, path |-> Nil]

\* The loop as a bug would have it: the pin file nearest the root wins.
FindFrom_Farthest(pins, current) ==
    LET found == {d \in 0..current : pins[d].kind # "absent"}
        top == CHOOSE d \in found : \A e \in found : d <= e
        n == NormalizeGoVersion(TrimSpace(pins[top].content))
    IN  IF found = {} THEN NotFound
        ELSE IF pins[top].kind = "unreadable" \/ ~n.ok
        THEN [err |-> ErrOther, found |-> FALSE, version |-> <<>>, path |-> Nil]
        ELSE [err |-> NoErr, found |-> TRUE, version |-> n.v, path |-> top]

\* The loop as another bug would have it: a pin file that cannot be read or
\* holds no version is passed over like a missing one.
FindFrom_SkipsInvalid(pins, current) ==
    LET valid == {d \in 0..current :
                    pins[d].kind = "file" /\ NormalizeGoVersion(TrimSpace(pins[d].content)).ok}
        near == CHOOSE d \in valid : \A e \in valid : e <= d
    IN  IF valid = {} THEN NotFound
        ELSE [err |-> NoErr, found |-> TRUE,
              version |-> NormalizeGoVersion(TrimSpace(pins[near].content)).v, path |-> near]

\* The loop of FindLocalVersion, from directory current upwards.
RECURSIVE FindFrom(_, _)
FindFrom(pins, current) ==
    LET f == pins[current]
    IN  IF f.kind = "file"
        THEN LET n == NormalizeGoVersion(TrimSpace(f.content))
             IN  IF ~n.ok
                 THEN [err |-> ErrOther, found |-> FALSE, version |-> <<>>, path |-> Nil]
                 ELSE [err |-> NoErr, found |-> TRUE, version |-> n.v, path |-> current]
        ELSE IF f.kind = "unreadable"
        THEN [err |-> ErrOther, found |-> FALSE, version |-> <<>>, path |-> Nil]
        ELSE IF Parent(current) = current THEN NotFound
        ELSE FindFrom(pins, Parent(current))

\* The loop as a bug would have it: only the start directory is looked at.
FindLocalVersion_NoWalk(pins, start) ==
    LET f == pins[start.dir]
    IN  IF f.kind = "file" /\ NormalizeGoVersion(TrimSpace(f.content)).ok
        THEN [err |-> NoErr, found |-> TRUE,
              version |-> NormalizeGoVersion(TrimSpace(f.content)).v, path |-> start.dir]
        ELSE NotFound

\* filepath.Dir of a path that names a file: the directory holding it.
DirOf(start) == [dir |-> start.dir, isFile |-> FALSE]

\* switcher.FindLocalVersion: a start that names a file begins at its directory.
FindLocalVersion(pins, start) ==
    LET abs == IF start.isFile THEN DirOf(start) ELSE start
    IN  FindFrom(pins, abs.dir)

NoActive(e) == [err |-> e, Version |-> <<>>, Scope |-> Nil, Source |-> Nil]

\* switcher.ResolveActiveVersion
ResolveActiveVersion(cwd, pins, file) ==
    LET local == FindLocalVersion(pins, cwd)
        cfg   == ReadConfig(file)
        norm  == NormalizeGoVersion(cfg.GlobalVersion)
    IN  IF local.err # NoErr THEN NoActive(ErrOther)
        ELSE IF local.found
        THEN [err |-> NoErr, Version |-> local.version, Scope |-> ScopeLocal,
              Source |-> local.path]
        ELSE IF cfg.err # NoErr THEN NoActive(ErrOther)
        ELSE IF cfg.GlobalVersion = <<>> THEN NoActive(ErrNoActiveVersion)
        ELSE IF ~norm.ok THEN NoActive(ErrOther)
        ELSE [err |-> NoErr, Version |-> norm.v, Scope |-> ScopeGlobal, Source |-> "config"]

\* Current(cwd): the resolver is called and its outcome recorded.
Resolve(cwd) ==
    /\ res' = [op |-> "resolve", cwd |-> cwd, version |-> <<>>, scope |-> Nil,
               out |-> ResolveActiveVersion(cwd, pinFiles, cfgFile)]
    /\ UNCHANGED <<pinFiles, cfgFile>>

\* The outcome of SetActiveVersion, recorded with its arguments.
SetReturned(version, scope, cwd, e) ==
    [op |-> "set", cwd |-> cwd, version |-> version, scope |-> scope, out |-> NoActive(e)]

\* SetActiveVersion as a bug would have it: the version is written as given.
SetActiveVersion_Unnormalized(version, scope, cwd) ==
    /\ NormalizeGoVersion(version).ok
    /\ scope = ScopeLocal
    /\ pinFiles' = [pinFiles EXCEPT ![cwd.dir] = PinFile(version \o <<"\n">>)]
    /\ res' = SetReturned(version, scope, cwd, NoErr)
    /\ UNCHANGED cfgFile

\* switcher.SetActiveVersion; written is the outcome of writeFileAtomically.
SetActiveVersion(version, scope, cwd) ==
    LET n   == NormalizeGoVersion(version)
        cfg == ReadConfig(cfgFile)
    IN  \E written \in BOOLEAN :
          IF ~n.ok
          THEN /\ res' = SetReturned(version, scope, cwd, ErrOther)
               /\ UNCHANGED <<pinFiles, cfgFile>>
          ELSE IF scope = ScopeLocal
          THEN IF written
               THEN /\ pinFiles' = [pinFiles EXCEPT ![cwd.dir] = PinFile(n.v \o <<"\n">>)]
                    /\ res' = SetReturned(version, scope, cwd, NoErr)
                    /\ UNCHANGED cfgFile
               ELSE /\ res' = SetReturned(version, scope, cwd, ErrOther)
                    /\ UNCHANGED <<pinFiles, cfgFile>>
          ELSE IF cfg.err # NoErr \/ ~written
          THEN /\ res' = SetReturned(version, scope, cwd, ErrOther)
               /\ UNCHANGED <<pinFiles, cfgFile>>
          ELSE /\ cfgFile' = CfgDoc(n.v)
               /\ res' = SetReturned(version, scope, cwd, NoErr)
               /\ UNCHANGED pinFiles

ResolveIdle ==
    [op |-> "none", cwd |-> [dir |-> 0, isFile |-> FALSE], version |-> <<>>, scope |-> Nil,
     out |-> NoActive(NoErr)]

InitResolve ==
    /\ pinFiles \in [Dirs -> InitPinStates]
    /\ cfgFile \in InitCfgStates
    /\ res = ResolveIdle

NextResolve ==
    \/ \E cwd \in Cwds : Resolve(cwd) /\ UNCHANGED otherThanResolve
    \/ \E v \in VersionInputs, s \in {ScopeLocal, ScopeGlobal}, d \in Dirs :
          SetActiveVersion(v, s, [dir |-> d, isFile |-> FALSE]) /\ UNCHANGED otherThanResolve

(***************************************************************************)
(* C1: from any cwd, a readable pin file holding a version in cwd or an    *)
(* ancestor makes ResolveActiveVersion return scope local with the version *)
(* of the nearest such file, whatever the config's global version; scope   *)
(* global (with the config's global version) is returned only when no pin  *)
(* file exists on the path from cwd to the root.                           *)
(***************************************************************************)
PinOnPath(cwd) == \E d \in 0..cwd.dir : pinFiles[d].kind # "absent"

NearestPin(cwd) ==
    CHOOSE d \in 0..cwd.dir :
        /\ pinFiles[d].kind # "absent"
        /\ \A e \in (d + 1)..cwd.dir : pinFiles[e].kind = "absent"

PinHoldsVersion(d) ==
    pinFiles[d].kind = "file" /\ NormalizeGoVersion(TrimSpace(pinFiles[d].content)).ok

C1_LocalOverridesGlobal ==
    res.op = "resolve" =>
        /\ (PinOnPath(res.cwd) /\ PinHoldsVersion(NearestPin(res.cwd))) =>
              /\ res.out.err = NoErr
              /\ res.out.Scope = ScopeLocal
              /\ res.out.Source = NearestPin(res.cwd)
              /\ res.out.Version =
                    NormalizeGoVersion(TrimSpace(pinFiles[NearestPin(res.cwd)].content)).v
        /\ res.out.Scope = ScopeGlobal =>
              /\ ~PinOnPath(res.cwd)
              /\ res.out.err = NoErr
              /\ res.out.Source = "config"
              /\ cfgFile.kind = "doc"
              /\ res.out.Version = NormalizeGoVersion(cfgFile.GlobalVersion).v

\* Resolution from a directory below the pin, with a different global version set.
C1_Witness ==
    /\ res.op = "resolve"
    /\ res.out.Scope = ScopeLocal
    /\ res.out.Source < res.cwd.dir
    /\ cfgFile.kind = "doc"
    /\ NormalizeGoVersion(cfgFile.GlobalVersion).ok
    /\ NormalizeGoVersion(cfgFile.GlobalVersion).v # res.out.Version

\* The directories from cwd up to the root that hold a pin file.
PinnedAbove(cwd) == {d \in 0..cwd.dir : pinFiles[d].kind # "absent"}

Closest(S) == CHOOSE d \in S : \A e \in S : e <= d

\* C20: a resolution that is answered from a pin file names the pin file
\* closest to cwd among those in cwd and its ancestors, and returns the version
\* that file holds, whatever more distant pin files hold; and whenever the
\* closest pin file holds a version, the resolution is answered from it.
C20_ClosestPinWins ==
    res.op = "resolve" =>
        /\ res.out.Scope = ScopeLocal =>
              /\ PinnedAbove(res.cwd) # {}
              /\ res.out.Source = Closest(PinnedAbove(res.cwd))
              /\ pinFiles[res.out.Source].kind = "file"
              /\ res.out.Version =
                    NormalizeGoVersion(TrimSpace(pinFiles[res.out.Source].content)).v
        /\ (PinnedAbove(res.cwd) # {} /\ PinHoldsVersion(Closest(PinnedAbove(res.cwd)))) =>
              /\ res.out.Scope = ScopeLocal
              /\ res.out.Source = Closest(PinnedAbove(res.cwd))
        /\ (PinnedAbove(res.cwd) # {} /\ ~PinHoldsVersion(Closest(PinnedAbove(res.cwd)))) =>
              res.out.err = ErrOther

\* cwd and its parent both hold a pin file, with different versions: the one in
\* cwd is returned.
C20_Witness ==
    /\ res.op = "resolve"
    /\ res.cwd.dir > 0
    /\ PinHoldsVersion(res.cwd.dir) /\ PinHoldsVersion(Parent(res.cwd.dir))
    /\ NormalizeGoVersion(TrimSpace(pinFiles[Parent(res.cwd.dir)].content)).v # res.out.Version
    /\ res.out.Scope = ScopeLocal
    /\ res.out.Source = res.cwd.dir

\* C21: a resolution returns ErrNoActiveVersion exactly when no pin file
\* exists in cwd or any ancestor and the config, read without error (a missing
\* config file reads as the empty config), has an empty global version; every
\* other failing resolution returns a different error.
C21_NoActiveVersionExactly ==
    res.op = "resolve" =>
        (res.out.err = ErrNoActiveVersion
            <=> /\ PinnedAbove(res.cwd) = {}
                /\ cfgFile.kind \in {"absent", "doc"}
                /\ cfgFile.GlobalVersion = <<>>)

\* A resolution from below the root, with no pin file on the way up and no
\* config file at all.
C21_Witness ==
    /\ res.op = "resolve"
    /\ res.cwd.dir > 0
    /\ PinnedAbove(res.cwd) = {}
    /\ cfgFile.kind = "absent"
    /\ res.out.err = ErrNoActiveVersion

\* The call that last returned set the local scope and succeeded.
SetLocalDone == res.op = "set" /\ res.scope = ScopeLocal /\ res.out.err = NoErr

\* C23: after SetActiveVersion with scope local has succeeded, the pin file of
\* the given cwd holds the normalized version followed by a newline, and a
\* resolution from cwd returns that version with scope local and that file as
\* its source; the step that wrote it changed no pin file of another directory
\* and not the config.
C23_SetLocalWritesCwdOnly ==
    /\ [](SetLocalDone =>
            /\ pinFiles[res.cwd.dir] =
                  PinFile(NormalizeGoVersion(res.version).v \o <<"\n">>)
            /\ ResolveActiveVersion(res.cwd, pinFiles, cfgFile) =
                  [err |-> NoErr, Version |-> NormalizeGoVersion(res.version).v,
                   Scope |-> ScopeLocal, Source |-> res.cwd.dir])
    /\ [][(res'.op = "set" /\ res'.scope = ScopeLocal) =>
            /\ cfgFile' = cfgFile
            /\ \A d \in Dirs \ {res'.cwd.dir} : pinFiles'[d] = pinFiles[d]]_vars

\* A version given without patch is pinned below the root, where the root
\* holds a pin for another version and the config a global version.
C23_Witness ==
    /\ SetLocalDone
    /\ res.cwd.dir > 0
    /\ res.version = S_124
    /\ PinHoldsVersion(0)
    /\ pinFiles[0] # pinFiles[res.cwd.dir]
    /\ cfgFile.kind = "doc" /\ cfgFile.GlobalVersion # <<>>

(***************************************************************************)
(* writeFileAtomically                                                     *)
(*                                                                         *)
(* Several writers (processes) replace the file at one destination path.   *)
(* A file's content is the document it was written from and the number of  *)
(* its bytes that are there; a document has DocLen bytes.                  *)
(***************************************************************************)
MaxWrites == 1
DocLen == 2

\* Two processes write the same path.
Writers == {"w1", "w2"}

FileAbsent == [doc |-> Nil, n |-> 0]
OldDoc == "old"

Complete(f) == f # FileAbsent /\ f.n = DocLen

\* The document writer w writes in its r-th call.
DocOf(w, r) == <<w, r>>

WriterIdle == [pc |-> "idle", round |-> 0, tmp |-> Nil, err |-> NoErr]

\* tmp.Write reports an error when fewer than len(content) bytes were written.
WriteFailed_Ignored(k) == FALSE

WriteFailed(k) == k < DocLen

\* writeFileAtomically is called: MkdirAll of the parent succeeds.
WriteBegin(w) ==
    /\ writers[w].pc \in {"idle", "done", "failed", "crashed"}
    /\ writers[w].round < MaxWrites
    /\ writers' = [writers EXCEPT ![w] =
                      [pc |-> "begun", round |-> @.round + 1, tmp |-> Nil, err |-> NoErr]]
    /\ UNCHANGED <<destFile, tmpFiles>>

\* os.CreateTemp: a new, empty file under a name no other file has, or an error.
CreateTemp(w) ==
    /\ writers[w].pc = "begun"
    /\ \/ LET name == <<w, writers[w].round>>
          IN  /\ tmpFiles' = tmpFiles \cup {[name |-> name, doc |-> DocOf(w, writers[w].round), n |-> 0]}
              /\ writers' = [writers EXCEPT ![w].pc = "created", ![w].tmp = name]
       \/ /\ writers' = [writers EXCEPT ![w].pc = "failed", ![w].err = "create temp file"]
          /\ UNCHANGED tmpFiles
    /\ UNCHANGED destFile

TmpOf(w) == CHOOSE f \in tmpFiles : f.name = writers[w].tmp

\* cleanup() as a bug would have it: the temp file stays.
Cleanup_Forgotten(w) == tmpFiles

\* cleanup(): os.Remove(tmpName)
Cleanup(w) == tmpFiles \ {TmpOf(w)}

\* tmp.Write(content): k of the bytes reach the file; on an error the file is
\* closed and removed.
TmpWrite(w, k) ==
    /\ writers[w].pc = "created"
    /\ IF WriteFailed(k)
       THEN /\ tmpFiles' = Cleanup(w)
            /\ writers' = [writers EXCEPT ![w].pc = "failed", ![w].err = "write temp file"]
       ELSE /\ tmpFiles' = Cleanup(w) \cup {[TmpOf(w) EXCEPT !.n = k]}
            /\ writers' = [writers EXCEPT ![w].pc = "written"]
    /\ UNCHANGED destFile

\* tmp.Chmod(perm)
TmpChmod(w) ==
    /\ writers[w].pc = "written"
    /\ \/ /\ writers' = [writers EXCEPT ![w].pc = "chmodded"]
          /\ UNCHANGED tmpFiles
       \/ /\ tmpFiles' = Cleanup(w)
          /\ writers' = [writers EXCEPT ![w].pc = "failed", ![w].err = "chmod temp file"]
    /\ UNCHANGED destFile

\* tmp.Close()
TmpClose(w) ==
    /\ writers[w].pc = "chmodded"
    /\ \/ /\ writers' = [writers EXCEPT ![w].pc = "closed"]
          /\ UNCHANGED tmpFiles
       \/ /\ tmpFiles' = Cleanup(w)
          /\ writers' = [writers EXCEPT ![w].pc = "failed", ![w].err = "close temp file"]
    /\ UNCHANGED destFile

\* os.Rename(tmpName, path): the destination is replaced in one step, or nothing
\* moves and the temp file is removed.
Rename(w) ==
    /\ writers[w].pc = "closed"
    /\ \/ /\ destFile' = [doc |-> TmpOf(w).doc, n |-> TmpOf(w).n]
          /\ tmpFiles' = Cleanup(w)
          /\ writers' = [writers EXCEPT ![w].pc = "done"]
       \/ /\ tmpFiles' = Cleanup(w)
          /\ writers' = [writers EXCEPT ![w].pc = "failed", ![w].err = "rename temp file"]
          /\ UNCHANGED destFile

\* The writing process is killed: between two steps, or inside tmp.Write with
\* only k bytes of the temp file on disk.
Crash(w) ==
    /\ writers[w].pc \in {"begun", "created", "written", "chmodded", "closed"}
    /\ writers' = [writers EXCEPT ![w].pc = "crashed"]
    /\ \/ UNCHANGED tmpFiles
       \/ /\ writers[w].pc = "created"
          /\ \E k \in 1..DocLen : tmpFiles' = Cleanup(w) \cup {[TmpOf(w) EXCEPT !.n = k]}
    /\ UNCHANGED destFile

InitWrite ==
    /\ destFile \in {FileAbsent, [doc |-> OldDoc, n |-> DocLen]}
    /\ tmpFiles = {}
    /\ writers = [w \in Writers |-> WriterIdle]

NextWrite ==
    \/ \E w \in Writers : WriteBegin(w) /\ UNCHANGED otherThanWrite
    \/ \E w \in Writers : CreateTemp(w) /\ UNCHANGED otherThanWrite
    \/ \E w \in Writers, k \in 0..DocLen : TmpWrite(w, k) /\ UNCHANGED otherThanWrite
    \/ \E w \in Writers : TmpChmod(w) /\ UNCHANGED otherThanWrite
    \/ \E w \in Writers : TmpClose(w) /\ UNCHANGED otherThanWrite
    \/ \E w \in Writers : Rename(w) /\ UNCHANGED otherThanWrite
    \/ \E w \in Writers : Crash(w) /\ UNCHANGED otherThanWrite

WriteErrors ==
    {"create temp file", "write temp file", "chmod temp file", "close temp file",
     "rename temp file"}

\* The temp file of the call writer w is in, if there is one.
OwnTmp(w) == {f \in tmpFiles : f.name = <<w, writers[w].round>>}

(***************************************************************************)
(* C19: a call of writeFileAtomically that has failed (creating the temp   *)
(* file, writing, chmod, close or rename) holds one of the five errors and *)
(* its temp file is not on disk; the step on which it fails leaves the     *)
(* destination as it is, and so does every step of a call other than the   *)
(* rename that succeeds: the call that fails never changed the             *)
(* destination.                                                            *)
(***************************************************************************)
C19_FailureLeavesDestination ==
    /\ [](\A w \in Writers :
             writers[w].pc = "failed" =>
                 /\ writers[w].err \in WriteErrors
                 /\ OwnTmp(w) = {})
    /\ [][\A w \in Writers :
             /\ (writers'[w].pc = "failed" /\ writers[w].pc # "failed") =>
                   /\ destFile' = destFile
                   /\ tmpFiles' = tmpFiles \ OwnTmp(w)
             /\ (writers'[w] # writers[w] /\ writers'[w].pc # "done") =>
                   destFile' = destFile]_vars

\* One call failed on the rename and another on the write, and the previous
\* document is in place with no temp file left.
C19_Witness ==
    \E w1, w2 \in Writers :
        /\ writers[w1].pc = "failed" /\ writers[w1].err = "rename temp file"
        /\ writers[w2].pc = "failed" /\ writers[w2].err = "write temp file"
        /\ destFile = [doc |-> OldDoc, n |-> DocLen]
        /\ tmpFiles = {}

(***************************************************************************)
(* C2: at every step of writeFileAtomically, crashes and a second writer   *)
(* included, the destination is absent, the complete previous document or  *)
(* the complete document of one writer: never a partial document.          *)
(***************************************************************************)
C2_DestinationNeverPartial ==
    \/ destFile = FileAbsent
    \/ /\ Complete(destFile)
       /\ \/ destFile.doc = OldDoc
          \/ \E w \in Writers : \E r \in 1..writers[w].round : destFile.doc = DocOf(w, r)

\* One writer was killed with a partial temp file; another one's document is in
\* place.
C2_Witness ==
    \E w1, w2 \in Writers :
        /\ w1 # w2
        /\ writers[w1].pc = "crashed"
        /\ \E f \in tmpFiles : f.name = writers[w1].tmp /\ f.n > 0 /\ f.n < DocLen
        /\ writers[w2].pc = "done"
        /\ destFile.doc = DocOf(w2, writers[w2].round)

(***************************************************************************)
(* Specifications                                                          *)
(***************************************************************************)
(***************************************************************************)
(* extractGoArchive                                                        *)
(*                                                                         *)
(* A path is the sequence of its names; an absolute path read from an      *)
(* archive header starts with the empty name, as strings.Split gives it.   *)
(* The filesystem maps the physical path of every object that exists to    *)
(* the object: a directory, a regular file, or a symbolic link with its    *)
(* target path.                                                            *)
(***************************************************************************)
MaxEntries == 2

\* The kernel's bound on the symbolic links followed in one path resolution.
MaxLinkHops == 2

ToolchainsDir == <<"toolchains">>
TargetDir == <<"toolchains", "go1.25.0">>
\* os.MkdirTemp(tmpParent, ".tmp-toolchain-")
TmpDir == <<"toolchains", ".tmp-toolchain-1">>
EtcDir == <<"etc">>

DirNode == [kind |-> "dir", target |-> <<>>]
FileNode == [kind |-> "file", target |-> <<>>]
LinkNode(t) == [kind |-> "link", target |-> t]

Front(p) == SubSeq(p, 1, Len(p) - 1)
Last(p) == p[Len(p)]

IsUnder(base, p) == Len(p) > Len(base) /\ SubSeq(p, 1, Len(base)) = base

IsAbs(p) == p # <<>> /\ Head(p) = ""

\* header.Name values: the archive root itself, entries below it (the go
\* binary among them), entries with ".." inside, and entries that leave the
\* root.
EntryNames ==
    {<<"go">>, <<"go", "a">>, <<"go", "a", "b">>, <<"go", "b">>,
     <<"go", "bin", "go">>, <<"go", "a", "go1.25.0", "bin", "go">>,
     <<"go", "a", "..", "b">>,
     <<"go", "..", "..", "etc", "passwd">>, <<"..", "etc", "passwd">>,
     <<"", "etc", "passwd">>, <<"x", "a">>}

\* header.Linkname values: inside the tree, the parent directory, the final
\* target, and an absolute path.
LinkNames == {<<"b">>, <<"..">>, <<"..", "go1.25.0">>, <<"", "etc">>}

\* tar.TypeDir, tar.TypeReg, tar.TypeSymlink, and any other kind of entry.
Entries ==
    [Name : EntryNames, Typeflag : {"dir", "reg", "other"}, Linkname : {<<>>}]
        \cup [Name : EntryNames, Typeflag : {"symlink"}, Linkname : LinkNames]

\* filepath.Clean on the names of a path (rooted tells an absolute path).
RECURSIVE CleanNames(_, _, _)
CleanNames(names, out, rooted) ==
    IF names = <<>> THEN out
    ELSE LET c == Head(names)
         IN  IF c = "" \/ c = "." THEN CleanNames(Tail(names), out, rooted)
             ELSE IF c = ".."
             THEN IF out # <<>> /\ Last(out) # ".."
                  THEN CleanNames(Tail(names), Front(out), rooted)
                  ELSE IF rooted THEN CleanNames(Tail(names), out, rooted)
                  ELSE CleanNames(Tail(names), Append(out, ".."), rooted)
             ELSE CleanNames(Tail(names), Append(out, c), rooted)

\* strings.Split(filepath.Clean(path), "/")
Clean(path) ==
    LET out == CleanNames(path, <<>>, IsAbs(path))
    IN  IF IsAbs(path) THEN (IF out = <<>> THEN <<"", "">> ELSE <<"">> \o out)
        ELSE IF out = <<>> THEN <<".">>
        ELSE out

\* stripGoRootPrefix as a bug would have it: the root name is not checked.
stripGoRootPrefix_NoRootCheck(path) ==
    LET parts == Clean(path)
    IN  [ok |-> TRUE, rel |-> IF Len(parts) = 1 THEN <<>> ELSE Tail(parts)]

stripGoRootPrefix(path) ==
    LET parts == Clean(path)
    IN  IF parts[1] # "go" THEN [ok |-> FALSE, rel |-> <<>>]
        ELSE IF Len(parts) = 1 THEN [ok |-> TRUE, rel |-> <<>>]
        ELSE [ok |-> TRUE, rel |-> Tail(parts)]

\* filepath.Join(tmpDir, relativePath): the names joined, then cleaned. TmpDir
\* stands for an absolute path below the filesystem root.
Join(base, rel) == Tail(Clean(<<"">> \o base \o rel))

ensureSafePath(baseDir, targetPath) ==
    targetPath = baseDir \/ IsUnder(baseDir, targetPath)

NoPath == [ok |-> FALSE, path |-> <<>>]

\* Path resolution as the kernel does it: from the physical directory cur, name
\* by name, following every symbolic link met on the way.
RECURSIVE Phys(_, _, _, _)
Phys(fs, cur, names, hops) ==
    IF names = <<>> THEN [ok |-> TRUE, path |-> cur]
    ELSE LET c == Head(names)
             cand == Append(cur, c)
         IN  IF fs[cur].kind # "dir" THEN NoPath
             ELSE IF c = ".."
             THEN Phys(fs, IF cur = <<>> THEN cur ELSE Front(cur), Tail(names), hops)
             ELSE IF cand \notin DOMAIN fs THEN NoPath
             ELSE IF fs[cand].kind = "link"
             THEN IF hops = 0 THEN NoPath
                  ELSE LET t == fs[cand].target
                       IN  IF IsAbs(t)
                           THEN Phys(fs, <<>>, Tail(t) \o Tail(names), hops - 1)
                           ELSE Phys(fs, cur, t \o Tail(names), hops - 1)
             ELSE Phys(fs, cand, Tail(names), hops)

\* Where open(2) with O_CREAT puts the object a path names: the directory part is
\* resolved, and a symbolic link in the last place is followed as well.
RECURSIVE PhysCreate(_, _, _, _)
PhysCreate(fs, cur, names, hops) ==
    IF names = <<>> \/ Last(names) = ".." THEN NoPath
    ELSE LET d == Phys(fs, cur, Front(names), hops)
             cand == Append(d.path, Last(names))
         IN  IF ~d.ok \/ fs[d.path].kind # "dir" THEN NoPath
             ELSE IF cand \notin DOMAIN fs THEN [ok |-> TRUE, path |-> cand]
             ELSE IF fs[cand].kind = "file" THEN [ok |-> TRUE, path |-> cand]
             ELSE IF fs[cand].kind = "dir" THEN NoPath
             ELSE IF hops = 0 THEN NoPath
             ELSE LET t == fs[cand].target
                  IN  IF IsAbs(t) THEN PhysCreate(fs, <<>>, Tail(t), hops - 1)
                      ELSE PhysCreate(fs, d.path, t, hops - 1)

Put(fs, p, node) == [q \in DOMAIN fs \cup {p} |-> IF q = p THEN node ELSE fs[q]]

FsFail(fs) == [ok |-> FALSE, fs |-> fs, made |-> {}]

\* os.MkdirAll(path): an existing directory (through links) is accepted; else
\* the parent is made first and the last name is created in it.
RECURSIVE MkdirAll(_, _)
MkdirAll(fs, path) ==
    LET st == Phys(fs, <<>>, path, MaxLinkHops)
    IN  IF st.ok
        THEN IF fs[st.path].kind = "dir" THEN [ok |-> TRUE, fs |-> fs, made |-> {}]
             ELSE FsFail(fs)
        ELSE IF path = <<>> THEN FsFail(fs)
        ELSE LET up == MkdirAll(fs, Front(path))
                 pp == Phys(up.fs, <<>>, Front(path), MaxLinkHops)
                 cand == Append(pp.path, Last(path))
             IN  IF ~up.ok \/ ~pp.ok THEN FsFail(fs)
                 ELSE IF cand \in DOMAIN up.fs THEN FsFail(up.fs)
                 ELSE [ok |-> TRUE, fs |-> Put(up.fs, cand, DirNode),
                       made |-> up.made \cup {cand}]

\* os.OpenFile(path, O_CREATE|O_TRUNC|O_WRONLY) and the copy of the entry's bytes.
WriteFile(fs, path) ==
    LET at == PhysCreate(fs, <<>>, path, MaxLinkHops)
    IN  IF ~at.ok THEN FsFail(fs)
        ELSE [ok |-> TRUE, fs |-> Put(fs, at.path, FileNode), made |-> {at.path}]

\* os.Symlink(linkname, path): fails when anything exists under the new name.
Symlink(fs, linkname, path) ==
    LET d == Phys(fs, <<>>, Front(path), MaxLinkHops)
        cand == Append(d.path, Last(path))
    IN  IF ~d.ok \/ fs[d.path].kind # "dir" THEN FsFail(fs)
        ELSE IF cand \in DOMAIN fs THEN FsFail(fs)
        ELSE [ok |-> TRUE, fs |-> Put(fs, cand, LinkNode(linkname)), made |-> {cand}]

\* The switch on header.Typeflag.
WriteEntry(fs, e, targetPath) ==
    CASE e.Typeflag = "dir" -> MkdirAll(fs, targetPath)
      [] e.Typeflag = "reg" ->
            LET up == MkdirAll(fs, Front(targetPath))
                w  == WriteFile(up.fs, targetPath)
            IN  IF ~up.ok THEN up
                ELSE [ok |-> w.ok, fs |-> w.fs, made |-> up.made \cup w.made]
      [] e.Typeflag = "symlink" ->
            LET up == MkdirAll(fs, Front(targetPath))
                w  == Symlink(up.fs, e.Linkname, targetPath)
            IN  IF ~up.ok THEN up
                ELSE [ok |-> w.ok, fs |-> w.fs, made |-> up.made \cup w.made]
      [] OTHER -> [ok |-> TRUE, fs |-> fs, made |-> {}]

\* os.RemoveAll(dir): the directory and all below it; links are not followed.
RemoveAll(fs, dir) ==
    [q \in {p \in DOMAIN fs : p # dir /\ ~IsUnder(dir, p)} |-> fs[q]]

\* os.Rename(from, to) of a directory: the tree moves; an existing non-empty
\* directory, or a file, at the new path makes it fail.
RenameDir(fs, from, to) ==
    IF to \in DOMAIN fs /\ (fs[to].kind # "dir" \/ \E p \in DOMAIN fs : IsUnder(to, p))
    THEN [ok |-> FALSE, fs |-> fs]
    ELSE LET moved(p) == to \o SubSeq(p, Len(from) + 1, Len(p))
             stay == {p \in DOMAIN fs : p # from /\ ~IsUnder(from, p)}
             gone == {p \in DOMAIN fs : p = from \/ IsUnder(from, p)}
         IN  [ok |-> TRUE,
              fs |-> [q \in stay \cup {moved(p) : p \in gone} |->
                         IF \E p \in gone : moved(p) = q
                         THEN fs[CHOOSE p \in gone : moved(p) = q]
                         ELSE fs[q]]]

\* The filesystem before the call: with or without a directory (and a file in
\* it) at the final target.
BaseFs ==
    [p \in {<<>>, ToolchainsDir, EtcDir} |-> DirNode]

StaleFs ==
    Put(Put(BaseFs, TargetDir, DirNode), Append(TargetDir, "stale"), FileNode)

HistIdle == [preexisting |-> FALSE, wrote |-> {}, escaping |-> FALSE]

\* os.RemoveAll(targetDir), the first statement of extractGoArchive.
XRemoveTarget ==
    /\ xpc = "start"
    /\ xfs' = RemoveAll(xfs, TargetDir)
    /\ xpc' = "mktemp"
    /\ UNCHANGED <<xdone, xhist>>

\* os.MkdirAll(tmpParent) and os.MkdirTemp.
XMkdirTemp ==
    /\ xpc = "mktemp"
    /\ \/ /\ xfs' = Put(xfs, TmpDir, DirNode)
          /\ xpc' = "open"
       \/ /\ xpc' = "failed"
          /\ UNCHANGED xfs
    /\ UNCHANGED <<xdone, xhist>>

\* The deferred os.RemoveAll(tmpDir) of every return after MkdirTemp.
XFail(fs) ==
    /\ xfs' = RemoveAll(fs, TmpDir)
    /\ xpc' = "failed"

\* os.Open(archivePath) and gzip.NewReader.
XOpen ==
    /\ xpc = "open"
    /\ \/ /\ xpc' = "entries"
          /\ UNCHANGED xfs
       \/ XFail(xfs)
    /\ UNCHANGED <<xdone, xhist>>

\* The path of an entry leaves the archive root: it is absolute, or its cleaned
\* form starts with "..".
Escapes(name) == IsAbs(name) \/ Head(Clean(name)) = ".."

\* One iteration of the loop over tarReader.Next() for entry e.
XEntry(e) ==
    /\ xpc = "entries"
    /\ xdone < MaxEntries
    /\ xdone' = xdone + 1
    /\ LET rel == stripGoRootPrefix(e.Name)
           targetPath == Join(TmpDir, rel.rel)
           w == WriteEntry(xfs, e, targetPath)
           h == [xhist EXCEPT !.escaping = @ \/ Escapes(e.Name)]
       IN  IF ~rel.ok THEN XFail(xfs) /\ xhist' = h
           ELSE IF rel.rel = <<>> THEN UNCHANGED <<xfs, xpc>> /\ xhist' = h
           ELSE IF ~ensureSafePath(TmpDir, targetPath) THEN XFail(xfs) /\ xhist' = h
           ELSE IF ~w.ok
           THEN XFail(w.fs) /\ xhist' = [h EXCEPT !.wrote = @ \cup w.made]
           ELSE /\ xfs' = w.fs
                /\ xpc' = "entries"
                /\ xhist' = [h EXCEPT !.wrote = @ \cup w.made]

\* tarReader.Next() returns an error other than io.EOF.
XReadError ==
    /\ xpc = "entries"
    /\ XFail(xfs)
    /\ UNCHANGED <<xdone, xhist>>

\* io.EOF: os.Rename(tmpDir, targetDir), then the deferred RemoveAll(tmpDir).
XFinish ==
    /\ xpc = "entries"
    /\ LET r == RenameDir(xfs, TmpDir, TargetDir)
       IN  IF r.ok THEN xfs' = r.fs /\ xpc' = "done"
           ELSE XFail(xfs)
    /\ UNCHANGED <<xdone, xhist>>

InitExtract ==
    /\ xfs \in {BaseFs, StaleFs}
    /\ xpc = "start"
    /\ xdone = 0
    /\ xhist = [HistIdle EXCEPT !.preexisting = (TargetDir \in DOMAIN xfs)]

NextExtract ==
    \/ XRemoveTarget /\ UNCHANGED otherThanExtract
    \/ XMkdirTemp /\ UNCHANGED otherThanExtract
    \/ XOpen /\ UNCHANGED otherThanExtract
    \/ \E e \in Entries : XEntry(e) /\ UNCHANGED otherThanExtract
    \/ XReadError /\ UNCHANGED otherThanExtract
    \/ XFinish /\ UNCHANGED otherThanExtract

(***************************************************************************)
(* C3: for every archive, extractGoArchive creates or writes no filesystem *)
(* object outside the temporary extraction root, and an entry whose path   *)
(* leaves the root (by ".." or as an absolute path) makes extraction fail. *)
(***************************************************************************)
C3_NothingWrittenOutsideRoot ==
    /\ \A p \in xhist.wrote : IsUnder(TmpDir, p)
    /\ xhist.escaping => xpc = "failed"

(***************************************************************************)
(* C6: a directory found at the final target is removed, and the temporary *)
(* directory renamed over it, only after every entry has been written into *)
(* the temporary directory; no entry is written into the final target.     *)
(***************************************************************************)
C6_TargetReplacedAfterAllEntries ==
    /\ (xhist.preexisting /\ xpc \in {"mktemp", "open", "entries", "failed"}) =>
          /\ TargetDir \in DOMAIN xfs
          /\ Append(TargetDir, "stale") \in DOMAIN xfs
    /\ \A p \in xhist.wrote : p # TargetDir /\ ~IsUnder(TargetDir, p)

(***************************************************************************)
(* Install pipeline: Service.InstallWithProgress, InstallGoArchive,        *)
(* ensureArchiveInCache, verifySHA256                                      *)
(*                                                                         *)
(* A cached archive file is what its bytes hash to and what its tree       *)
(* holds: "good" (with bin/go), "nobin" (a tree without bin/go) or         *)
(* "broken" (no readable gzip/tar stream).  A toolchain directory is       *)
(* "absent", "partial" (a directory without bin/go) or "installed".        *)
(***************************************************************************)
UpperCase == <<"A", "B", "C", "D", "E", "F">>
LowerCase == <<"a", "b", "c", "d", "e", "f">>

ToLowerChar(c) ==
    IF \E i \in 1..Len(UpperCase) : UpperCase[i] = c
    THEN LowerCase[CHOOSE i \in 1..Len(UpperCase) : UpperCase[i] = c]
    ELSE c

\* strings.ToLower, on the characters of a hex digest
ToLower(s) == [i \in 1..Len(s) |-> ToLowerChar(s[i])]

ShaGood == <<"a", "b", "1", "2">>
ShaBad == <<"f", "f", "0", "0">>

\* archive.SHA256 as release metadata may give it: the digest, the digest in
\* upper case with white space around it, or nothing.
ShaInputs == {ShaGood, <<" ", "A", "B", "1", "2", "\n">>, <<" ">>, <<>>}

IVersions == {S_go1250, S_go1240}

CacheAbsent == [sha |-> <<>>, tree |-> Nil]

Blobs == [sha : {ShaGood, ShaBad}, tree : {"good", "nobin", "broken"}]

\* verifySHA256 as a bug would have it: the comparison's outcome is dropped.
verifySHA256_Unchecked(file, expectedHex) == TRUE

\* verifySHA256: the file's digest against the trimmed, lower-cased expected one.
verifySHA256(file, expectedHex) == file.sha = ToLower(TrimSpace(expectedHex))

ShaGiven(expectedHex) == TrimSpace(expectedHex) # <<>>

CallIdle ==
    [version |-> <<>>, file |-> Nil, sha |-> <<>>, result |-> Nil,
     wasInstalled |-> FALSE, before |-> Nil, fetches |-> 0, downloads |-> 0,
     cachedAtStart |-> CacheAbsent, removed |-> FALSE, ensure |-> Nil,
     extractStarted |-> FALSE, handed |-> CacheAbsent]

Return(result) ==
    /\ ipc' = "idle"
    /\ icall' = [icall EXCEPT !.result = result]

\* InstallWithProgress is called: the version is normalized first.
InstallBegin(version) ==
    /\ ipc = "idle"
    /\ LET n == NormalizeGoVersion(version)
       IN  IF ~n.ok
           THEN /\ icall' = [CallIdle EXCEPT !.result = "input error", !.before = toolchains]
                /\ UNCHANGED ipc
           ELSE /\ icall' = [CallIdle EXCEPT !.version = n.v, !.before = toolchains,
                                             !.wasInstalled = (toolchains[n.v] = "installed")]
                /\ ipc' = "fetch"
    /\ UNCHANGED <<cache, toolchains>>

\* s.ReleaseClient.Fetch(ctx) and releases.FindArchive: the metadata request
\* fails, or the version is not in the list (or not for this platform), or its
\* archive descriptor is found.
FetchAndSelect ==
    /\ ipc = "fetch"
    /\ \/ /\ icall' = [icall EXCEPT !.fetches = @ + 1, !.result = "error"]
          /\ ipc' = "idle"
       \/ \E sha \in ShaInputs :
             /\ icall' = [icall EXCEPT !.fetches = @ + 1, !.file = icall.version, !.sha = sha]
             /\ ipc' = "stat"
    /\ UNCHANGED <<cache, toolchains>>

\* InstallGoArchive: bin/go already under the target directory returns nil.
StatToolchain ==
    /\ ipc = "stat"
    /\ ipc' = IF toolchains[icall.version] = "installed" THEN "shims" ELSE "ensure"
    /\ UNCHANGED <<cache, toolchains, icall>>

\* downloadToFile: the file at the cache path is replaced by what the server
\* sent, or an error leaves it alone.
Download(c, file, blob) == [c EXCEPT ![file] = blob]

\* ensureArchiveInCache as a bug would have it: a cached file is used as it is.
CacheHitUsable_NoVerify(file, sha) == TRUE

\* ensureArchiveInCache: a cached file is used when no checksum is given or
\* when it verifies.
CacheHitUsable(file, sha) == ~ShaGiven(sha) \/ verifySHA256(file, sha)

\* ensureArchiveInCache
EnsureArchiveInCache ==
    /\ ipc = "ensure"
    /\ LET f == icall.file
           c == [icall EXCEPT !.cachedAtStart = cache[f]]
       IN  IF cache[f] # CacheAbsent /\ CacheHitUsable(cache[f], icall.sha)
           THEN /\ icall' = [c EXCEPT !.ensure = "ok"]
                /\ ipc' = "verify"
                /\ UNCHANGED cache
           ELSE \/ /\ cache[f] # CacheAbsent          \* os.Remove fails
                   /\ icall' = [c EXCEPT !.ensure = "error", !.result = "error"]
                   /\ ipc' = "idle"
                   /\ UNCHANGED cache
                \/ /\ cache' = [cache EXCEPT ![f] = CacheAbsent]      \* download fails
                   /\ icall' = [c EXCEPT !.ensure = "error", !.result = "error",
                                         !.removed = (cache[f] # CacheAbsent),
                                         !.downloads = @ + 1]
                   /\ ipc' = "idle"
                \/ \E blob \in Blobs :
                      /\ cache' = Download(cache, f, blob)
                      /\ icall' = [c EXCEPT !.ensure = "ok",
                                            !.removed = (cache[f] # CacheAbsent),
                                            !.downloads = @ + 1]
                      /\ ipc' = "verify"
    /\ UNCHANGED toolchains

\* InstallGoArchive: the cached file is verified when a checksum is given.
VerifyArchive ==
    /\ ipc = "verify"
    /\ IF ShaGiven(icall.sha) /\ ~verifySHA256(cache[icall.file], icall.sha)
       THEN Return("error")
       ELSE ipc' = "extract" /\ UNCHANGED icall
    /\ UNCHANGED <<cache, toolchains>>

\* extractGoArchive on the cached file: the target is removed first; a stream
\* that cannot be read fails after that; else the tree is renamed into place.
ExtractArchive ==
    /\ ipc = "extract"
    /\ LET v == icall.version
           blob == cache[icall.file]
           c == [icall EXCEPT !.extractStarted = TRUE, !.handed = blob]
       IN  \/ /\ blob.tree = "broken"
              /\ toolchains' = [toolchains EXCEPT ![v] = "absent"]
              /\ icall' = [c EXCEPT !.result = "error"]
              /\ ipc' = "idle"
           \/ /\ blob.tree # "broken"
              /\ toolchains' = [toolchains EXCEPT ![v] =
                                   IF blob.tree = "good" THEN "installed" ELSE "partial"]
              /\ icall' = c
              /\ ipc' = "check"
    /\ UNCHANGED cache

\* InstallGoArchive: bin/go must exist under the target after extraction.
CheckBinGo ==
    /\ ipc = "check"
    /\ IF toolchains[icall.version] = "installed"
       THEN ipc' = "shims" /\ UNCHANGED icall
       ELSE Return("error")
    /\ UNCHANGED <<cache, toolchains>>

\* switcher.EnsureShims, the last step of InstallWithProgress.
EnsureShims ==
    /\ ipc = "shims"
    /\ \/ Return("ok")
       \/ Return("error")
    /\ UNCHANGED <<cache, toolchains>>

InitInstall ==
    /\ cache = [f \in IVersions |-> CacheAbsent]
    /\ toolchains = [v \in IVersions |-> "absent"]
    /\ ipc = "idle"
    /\ icall = CallIdle

NextInstall ==
    \/ \E v \in VersionInputs : InstallBegin(v) /\ UNCHANGED otherThanInstall
    \/ FetchAndSelect /\ UNCHANGED otherThanInstall
    \/ StatToolchain /\ UNCHANGED otherThanInstall
    \/ EnsureArchiveInCache /\ UNCHANGED otherThanInstall
    \/ VerifyArchive /\ UNCHANGED otherThanInstall
    \/ ExtractArchive /\ UNCHANGED otherThanInstall
    \/ CheckBinGo /\ UNCHANGED otherThanInstall
    \/ EnsureShims /\ UNCHANGED otherThanInstall

\* The call has returned to its caller.
Returned == ipc = "idle" /\ icall.result # Nil

\* C4: after any sequence of installs, once a call for which a checksum was
\* given has returned, the cache path of its archive holds no file or a file
\* whose digest is the expected one.
C4_CacheAbsentOrValid ==
    (Returned /\ icall.file # Nil /\ ShaGiven(icall.sha)) =>
        \/ cache[icall.file] = CacheAbsent
        \/ verifySHA256(cache[icall.file], icall.sha)

\* C5: installing a version whose toolchain is already installed succeeds
\* without any network access: no metadata request and no download.
C5_InstalledNeedsNoNetwork ==
    (Returned /\ icall.wasInstalled) =>
        /\ icall.fetches = 0
        /\ icall.downloads = 0

\* The call got past ensureArchiveInCache with a file at the cache path whose
\* digest is not the expected one.
CachedMismatch ==
    /\ icall.ensure = "ok"
    /\ ShaGiven(icall.sha)
    /\ cache[icall.file] # CacheAbsent
    /\ cache[icall.file].sha # ToLower(TrimSpace(icall.sha))

\* C7: when the cached archive does not match the expected SHA256, the install
\* returns an error, extraction is never started and the toolchains directory
\* is as it was before the call.
C7_MismatchStopsBeforeExtraction ==
    CachedMismatch =>
        /\ ~icall.extractStarted
        /\ toolchains = icall.before
        /\ ipc \in {"verify", "idle"}
        /\ ipc = "idle" => icall.result = "error"

C7_Witness ==
    /\ CachedMismatch
    /\ Returned
    /\ icall.downloads = 1
    /\ \E v \in IVersions : icall.before[v] = "installed"

\* C8: with a checksum given and a file at the cache path, a file that verifies
\* is used without any download; one that does not is deleted and the archive
\* is downloaded again; a file that failed verification is never the one
\* handed to extraction.
C8_CachedFileVerifiedOrReplaced ==
    LET had == icall.cachedAtStart # CacheAbsent /\ ShaGiven(icall.sha)
        good == icall.cachedAtStart.sha = ToLower(TrimSpace(icall.sha))
    IN  /\ (icall.ensure # Nil /\ had /\ good) =>
               /\ icall.downloads = 0
               /\ ~icall.removed
               /\ icall.ensure = "ok"
               /\ cache[icall.file] = icall.cachedAtStart
        /\ (icall.ensure = "ok" /\ had /\ ~good) =>
               /\ icall.removed
               /\ icall.downloads = 1
        /\ (icall.ensure = "error" /\ had /\ ~good) =>
               \/ ~icall.removed /\ icall.downloads = 0 /\ cache[icall.file] = icall.cachedAtStart
               \/ icall.removed /\ icall.downloads = 1 /\ cache[icall.file] = CacheAbsent
        /\ (icall.extractStarted /\ ShaGiven(icall.sha)) =>
               icall.handed.sha = ToLower(TrimSpace(icall.sha))

\* A mismatching cached file was replaced by a download whose tree was then
\* handed to extraction.
C8_Witness ==
    /\ icall.cachedAtStart # CacheAbsent
    /\ ShaGiven(icall.sha)
    /\ icall.cachedAtStart.sha # ToLower(TrimSpace(icall.sha))
    /\ icall.removed
    /\ icall.downloads = 1
    /\ icall.extractStarted
    /\ icall.sha # ShaGood

(***************************************************************************)
(* TUI bridge: startInstall / startUse / startDelete, waitAsyncCmd and      *)
(* Update.  A workflow is a worker goroutine with its two channels; the    *)
(* commands Update returns run on their own and their messages reach       *)
(* Update in any order.                                                    *)
(***************************************************************************)
MaxWorkflows == 3
MaxEvents == 1        \* events emitted, all workers together
MaxLocalEvents == 3   \* the same, when only the keys of local mode are used
ProgressCap == 1      \* make(chan progress.Event, 128), scaled
MaxRefresh == 1

\* make(chan tea.Msg, 1)
DoneCap == 1

\* doneCh as a channel made without a buffer would be: with no reader waiting,
\* a send has nowhere to put its value.
DoneHasRoom_Unbuffered(buf) == FALSE

\* A send on doneCh completes at once while the buffer has room.
DoneHasRoom(buf) == Len(buf) < DoneCap

Workflows == 1..MaxWorkflows

\* a nil channel in the model struct
NilChan == 0

Kinds == {"install", "use", "delete"}

NoKind == "none"

ProgressMsg(w, e) == [type |-> "progressMsg", w |-> w, event |-> e, kind |-> NoKind, ok |-> TRUE]

DoneMsg(w, kind, ok) == [type |-> "doneMsg", w |-> w, event |-> 0, kind |-> kind, ok |-> ok]

AsyncClosedMsg == [type |-> "asyncClosedMsg", w |-> 0, event |-> 0, kind |-> NoKind, ok |-> TRUE]

VersionsMsg(mode) == [type |-> "versionsMsg", w |-> 0, event |-> 0, kind |-> mode, ok |-> TRUE]

Msgs ==
    {ProgressMsg(w, e) : w \in Workflows, e \in 1..MaxLocalEvents}
    \cup {DoneMsg(w, k, ok) : w \in Workflows, k \in Kinds, ok \in BOOLEAN}
    \cup {AsyncClosedMsg, VersionsMsg("local"), VersionsMsg("remote")}

\* a command's message on its way to Update
Post(box, msg) == [box EXCEPT ![msg] = @ + 1]

Take(box, msg) == [box EXCEPT ![msg] = @ - 1]

\* loadLocalCmd.  (loadCurrentCmd is issued with it; its currentMsg changes the
\* active version shown and nothing of the bridge, and is left out.)
LoadLocal(box) == Post(box, VersionsMsg("local"))

WorkerIdle == [pc |-> "idle", kind |-> NoKind, emitted |-> 0]

\* a goroutine that has returned
WorkerExited == [pc |-> "exit", kind |-> NoKind, emitted |-> 0]

OpenChan == [buf |-> <<>>, closed |-> FALSE]

\* newModel and Init: busy, in local mode, the load of the local list on its way.
\* The workers of one run emit at most budget events between them.
InitTuiWith(budget) ==
    /\ m = [busy |-> TRUE, mode |-> "local", hasRemoteHit |-> FALSE,
            progressCh |-> NilChan, doneCh |-> NilChan]
    /\ workers = [w \in Workflows |-> WorkerIdle]
    /\ progressCh = [w \in Workflows |-> OpenChan]
    /\ doneCh = [w \in Workflows |-> OpenChan]
    /\ waiters = [w \in Workflows |-> 0]
    /\ mailbox = LoadLocal([msg \in Msgs |-> 0])
    /\ bridge = [taken |-> [w \in Workflows |-> 0],
                 left |-> [w \in Workflows |-> 0],
                 seen |-> [w \in Workflows |-> <<>>],
                 dropped |-> [w \in Workflows |-> 0],
                 emitted |-> 0,
                 budget |-> budget,
                 refreshes |-> 0]

InitTui == InitTuiWith(MaxEvents)

InitTuiLocal == InitTuiWith(MaxLocalEvents)

\* startInstall, startUse, startDelete: fresh channels, the worker goroutine,
\* busy set, the channels stored in the model, one waitAsyncCmd issued.
StartWorkflow(kind) ==
    /\ \E w \in Workflows :
          /\ workers[w].pc = "idle"
          /\ \A v \in Workflows : v < w => workers[v].pc # "idle"
          /\ workers' = [workers EXCEPT ![w] = [pc |-> "run", kind |-> kind, emitted |-> 0]]
          /\ m' = [m EXCEPT !.busy = TRUE, !.progressCh = w, !.doneCh = w]
          /\ waiters' = [waiters EXCEPT ![w] = @ + 1]
    /\ UNCHANGED <<progressCh, doneCh, mailbox, bridge>>

\* handleKey "i": install, in remote mode, ignored while busy
KeyInstall == ~m.busy /\ m.mode = "remote" /\ StartWorkflow("install")

\* handleKey "x": delete, in local mode, ignored while busy
KeyDelete == ~m.busy /\ m.mode = "local" /\ StartWorkflow("delete")

\* handleKey "enter": use, ignored while busy
KeyEnter == ~m.busy /\ StartWorkflow("use")

\* handleKey "tab": the first switch to remote mode loads the remote list.
KeyTab ==
    /\ ~m.busy
    /\ IF m.mode = "local"
       THEN IF ~m.hasRemoteHit
            THEN /\ m' = [m EXCEPT !.mode = "remote", !.busy = TRUE]
                 /\ mailbox' = Post(mailbox, VersionsMsg("remote"))
            ELSE /\ m' = [m EXCEPT !.mode = "remote"]
                 /\ UNCHANGED mailbox
       ELSE /\ m' = [m EXCEPT !.mode = "local"]
            /\ UNCHANGED mailbox
    /\ UNCHANGED <<workers, progressCh, doneCh, waiters, bridge>>

\* handleKey "r": busy set and the lists loaded again.
KeyRefresh ==
    /\ ~m.busy
    /\ bridge.refreshes < MaxRefresh
    /\ m' = [m EXCEPT !.busy = TRUE]
    /\ mailbox' = IF m.mode = "local" THEN LoadLocal(mailbox)
                  ELSE Post(mailbox, VersionsMsg("remote"))
    /\ bridge' = [bridge EXCEPT !.refreshes = @ + 1]
    /\ UNCHANGED <<workers, progressCh, doneCh, waiters>>

\* reporter: a send that never blocks; the event is dropped when the buffer is full.
WorkerEmit(w) ==
    /\ workers[w].pc = "run"
    /\ bridge.emitted < bridge.budget
    /\ workers' = [workers EXCEPT ![w].emitted = @ + 1]
    /\ bridge' = [bridge EXCEPT !.emitted = @ + 1,
                                !.dropped[w] = IF Len(progressCh[w].buf) < ProgressCap
                                               THEN @ ELSE @ + 1]
    /\ progressCh' = IF Len(progressCh[w].buf) < ProgressCap
                     THEN [progressCh EXCEPT ![w].buf = Append(@, workers[w].emitted + 1)]
                     ELSE progressCh
    /\ UNCHANGED <<m, doneCh, waiters, mailbox>>

\* close(progressCh), once the service call has returned
WorkerCloseProgress(w) ==
    /\ workers[w].pc = "run"
    /\ workers' = [workers EXCEPT ![w].pc = "closedProgress"]
    /\ progressCh' = [progressCh EXCEPT ![w].closed = TRUE]
    /\ UNCHANGED <<m, doneCh, waiters, mailbox, bridge>>

\* doneCh <- the workflow's done message: a send that waits for room in the
\* buffer.
WorkerSendDone(w, ok) ==
    /\ workers[w].pc = "closedProgress"
    /\ DoneHasRoom(doneCh[w].buf)
    /\ workers' = [workers EXCEPT ![w].pc = "sent"]
    /\ doneCh' = [doneCh EXCEPT ![w].buf = Append(@, DoneMsg(w, workers[w].kind, ok))]
    /\ UNCHANGED <<m, progressCh, waiters, mailbox, bridge>>

\* close(doneCh)
WorkerCloseDone(w) ==
    /\ workers[w].pc = "sent"
    /\ workers' = [workers EXCEPT ![w] = WorkerExited]
    /\ doneCh' = [doneCh EXCEPT ![w].closed = TRUE]
    /\ UNCHANGED <<m, progressCh, waiters, mailbox, bridge>>

\* waitAsyncCmd's function, the doneCh case of its select with a value: taken
\* whatever the event channel still holds.  (The case of a closed and empty
\* event channel goes on to receive from doneCh, which is this step too.)
WaitDone(w) ==
    /\ waiters[w] > 0
    /\ doneCh[w].buf # <<>>
    /\ doneCh' = [doneCh EXCEPT ![w].buf = <<>>]
    /\ waiters' = [waiters EXCEPT ![w] = @ - 1]
    /\ mailbox' = Post(mailbox, Head(doneCh[w].buf))
    /\ bridge' = [bridge EXCEPT !.taken[w] = @ + 1, !.left[w] = Len(progressCh[w].buf)]
    /\ UNCHANGED <<m, workers, progressCh>>

\* waitAsyncCmd's function: doneCh closed and drained gives asyncClosedMsg.
WaitDoneClosed(w) ==
    /\ waiters[w] > 0
    /\ doneCh[w].buf = <<>>
    /\ doneCh[w].closed
    /\ waiters' = [waiters EXCEPT ![w] = @ - 1]
    /\ mailbox' = Post(mailbox, AsyncClosedMsg)
    /\ UNCHANGED <<m, workers, progressCh, doneCh, bridge>>

\* waitAsyncCmd's function, the progressCh case of its select with an event
WaitProgress(w) ==
    /\ waiters[w] > 0
    /\ progressCh[w].buf # <<>>
    /\ progressCh' = [progressCh EXCEPT ![w].buf = Tail(@)]
    /\ waiters' = [waiters EXCEPT ![w] = @ - 1]
    /\ mailbox' = Post(mailbox, ProgressMsg(w, Head(progressCh[w].buf)))
    /\ UNCHANGED <<m, workers, doneCh, bridge>>

\* Update, case progressMsg: waitAsyncCmd again, on the channels the model
\* holds now.
UpdateProgress(msg) ==
    /\ msg.type = "progressMsg"
    /\ mailbox[msg] > 0
    /\ mailbox' = Take(mailbox, msg)
    /\ waiters' = IF m.doneCh # NilChan \/ m.progressCh # NilChan
                  THEN [waiters EXCEPT ![m.doneCh] = @ + 1]
                  ELSE waiters
    /\ bridge' = [bridge EXCEPT !.seen[msg.w] = Append(@, msg.event)]
    /\ UNCHANGED <<m, workers, progressCh, doneCh>>

\* Update, case asyncClosedMsg
UpdateAsyncClosed ==
    /\ mailbox[AsyncClosedMsg] > 0
    /\ mailbox' = Take(mailbox, AsyncClosedMsg)
    /\ m' = [m EXCEPT !.busy = FALSE, !.progressCh = NilChan, !.doneCh = NilChan]
    /\ UNCHANGED <<workers, progressCh, doneCh, waiters, bridge>>

\* Update, case versionsMsg: busy is cleared, with or without an error.
UpdateVersions(msg, err) ==
    /\ msg.type = "versionsMsg"
    /\ mailbox[msg] > 0
    /\ mailbox' = Take(mailbox, msg)
    /\ m' = [m EXCEPT !.busy = FALSE,
                      !.hasRemoteHit = IF ~err /\ msg.kind = "remote" THEN TRUE ELSE @]
    /\ UNCHANGED <<workers, progressCh, doneCh, waiters, bridge>>

\* Update, cases installDoneMsg, useDoneMsg, deleteDoneMsg: busy cleared, the
\* channels forgotten; a successful install or delete loads the lists again.
UpdateDone(msg) ==
    /\ msg.type = "doneMsg"
    /\ mailbox[msg] > 0
    /\ m' = [m EXCEPT !.busy = FALSE, !.progressCh = NilChan, !.doneCh = NilChan]
    /\ mailbox' = IF msg.ok /\ msg.kind \in {"install", "delete"}
                  THEN LoadLocal(Take(mailbox, msg))
                  ELSE Take(mailbox, msg)
    /\ UNCHANGED <<workers, progressCh, doneCh, waiters, bridge>>

NextTui ==
    \/ KeyInstall /\ UNCHANGED otherThanTui
    \/ KeyDelete /\ UNCHANGED otherThanTui
    \/ KeyEnter /\ UNCHANGED otherThanTui
    \/ KeyTab /\ UNCHANGED otherThanTui
    \/ KeyRefresh /\ UNCHANGED otherThanTui
    \/ \E w \in Workflows : WorkerEmit(w) /\ UNCHANGED otherThanTui
    \/ \E w \in Workflows : WorkerCloseProgress(w) /\ UNCHANGED otherThanTui
    \/ \E w \in Workflows, ok \in BOOLEAN : WorkerSendDone(w, ok) /\ UNCHANGED otherThanTui
    \/ \E w \in Workflows : WorkerCloseDone(w) /\ UNCHANGED otherThanTui
    \/ \E w \in Workflows : WaitDone(w) /\ UNCHANGED otherThanTui
    \/ \E w \in Workflows : WaitDoneClosed(w) /\ UNCHANGED otherThanTui
    \/ \E w \in Workflows : WaitProgress(w) /\ UNCHANGED otherThanTui
    \/ \E msg \in Msgs : UpdateProgress(msg) /\ UNCHANGED otherThanTui
    \/ UpdateAsyncClosed /\ UNCHANGED otherThanTui
    \/ \E msg \in Msgs, err \in BOOLEAN : UpdateVersions(msg, err) /\ UNCHANGED otherThanTui
    \/ \E msg \in Msgs : UpdateDone(msg) /\ UNCHANGED otherThanTui

\* The TUI with the keys of local mode only: Enter and x.
NextTuiLocal ==
    \/ KeyDelete /\ UNCHANGED otherThanTui
    \/ KeyEnter /\ UNCHANGED otherThanTui
    \/ \E w \in Workflows : WorkerEmit(w) /\ UNCHANGED otherThanTui
    \/ \E w \in Workflows : WorkerCloseProgress(w) /\ UNCHANGED otherThanTui
    \/ \E w \in Workflows, ok \in BOOLEAN : WorkerSendDone(w, ok) /\ UNCHANGED otherThanTui
    \/ \E w \in Workflows : WorkerCloseDone(w) /\ UNCHANGED otherThanTui
    \/ \E w \in Workflows : WaitDone(w) /\ UNCHANGED otherThanTui
    \/ \E w \in Workflows : WaitDoneClosed(w) /\ UNCHANGED otherThanTui
    \/ \E w \in Workflows : WaitProgress(w) /\ UNCHANGED otherThanTui
    \/ \E msg \in Msgs : UpdateProgress(msg) /\ UNCHANGED otherThanTui
    \/ UpdateAsyncClosed /\ UNCHANGED otherThanTui
    \/ \E msg \in Msgs, err \in BOOLEAN : UpdateVersions(msg, err) /\ UNCHANGED otherThanTui
    \/ \E msg \in Msgs : UpdateDone(msg) /\ UNCHANGED otherThanTui

\* The result of workflow w sits in its doneCh with no waitAsyncCmd reading
\* that channel and the model no longer holding it: nothing will read it.
Dropped(w) ==
    /\ doneCh[w].buf # <<>>
    /\ waiters[w] = 0
    /\ m.doneCh # w

\* C9: the result of every workflow that terminates reaches the consumer
\* exactly once: it is never dropped and never delivered twice.
C9_ResultExactlyOnce ==
    \A w \in Workflows :
        /\ ~Dropped(w)
        /\ bridge.taken[w] <= 1

\* Strictly increasing event numbers: a subsequence of what the worker
\* emitted (events 1, 2, ... in that order), nothing twice.
InEmissionOrder(q) == \A i, j \in 1..Len(q) : i < j => q[i] < q[j]

\* C11: the progress events Update receives for one workflow are a subsequence
\* of the events its worker emitted, in emission order and none twice.
C11_EventsInEmissionOrder ==
    \A w \in Workflows : InEmissionOrder(bridge.seen[w])

\* progressMsg messages of workflow w on their way to Update
RECURSIVE PendingEvents(_, _)
PendingEvents(w, e) ==
    IF e = 0 THEN 0 ELSE mailbox[ProgressMsg(w, e)] + PendingEvents(w, e - 1)

\* C12: the worker never blocks on the bridge.  Every event emitted was put in
\* the buffer or dropped at once, dropped only with the buffer full; the send
\* of the result and the closing of the channels can always be taken, whatever
\* the consumer has read.
C12_WorkerNeverBlocks ==
    /\ [](\A w \in Workflows :
            /\ Len(progressCh[w].buf) <= ProgressCap
            /\ workers[w].pc \in {"run", "closedProgress", "sent"} =>
                   workers[w].emitted =
                       Len(progressCh[w].buf) + bridge.dropped[w]
                       + PendingEvents(w, MaxLocalEvents) + Len(bridge.seen[w])
            /\ workers[w].pc = "run" =>
                   /\ ~progressCh[w].closed
                   /\ ENABLED (WorkerCloseProgress(w) /\ UNCHANGED otherThanTui)
            /\ workers[w].pc = "closedProgress" =>
                   ENABLED (WorkerSendDone(w, TRUE) /\ UNCHANGED otherThanTui)
            /\ workers[w].pc = "sent" =>
                   ENABLED (WorkerCloseDone(w) /\ UNCHANGED otherThanTui))
    /\ [][\A w \in Workflows :
            /\ (workers[w].pc = "run" /\ workers'[w].emitted > workers[w].emitted) =>
                   IF Len(progressCh[w].buf) < ProgressCap
                   THEN /\ progressCh'[w].buf = Append(progressCh[w].buf, workers'[w].emitted)
                        /\ bridge'.dropped[w] = bridge.dropped[w]
                   ELSE /\ progressCh'[w] = progressCh[w]
                        /\ bridge'.dropped[w] = bridge.dropped[w] + 1
            /\ bridge'.dropped[w] > bridge.dropped[w] =>
                   Len(progressCh[w].buf) = ProgressCap]_vars

\* A worker has returned after an event was dropped, its result unread and
\* its event buffer still full.
C12_Witness ==
    \E w \in Workflows :
        /\ workers[w].pc = "exit"
        /\ bridge.dropped[w] > 0
        /\ doneCh[w].buf # <<>>
        /\ Len(progressCh[w].buf) = ProgressCap

\* C10: the result of a workflow is delivered only after every event still
\* buffered in its event channel has been delivered.
C10_ResultAfterBufferedEvents ==
    \A w \in Workflows : bridge.taken[w] > 0 => bridge.left[w] = 0

(***************************************************************************)
(* Orchestration: Service.UseWithProgress, SyncToolsForVersionWithProgress *)
(* and DeleteInstalledWithProgress, over the pin files, the config, the    *)
(* toolchain directories and the golangci-lint binaries.                   *)
(***************************************************************************)
\* The three numbers of ParseGoVersion, from the parts of the normalized version.
ParsedParts(parts) ==
    [ok |-> TRUE, major |-> Atoi(parts[1]).n, minor |-> Atoi(parts[2]).n,
     patch |-> Atoi(parts[3]).n]

\* ParseGoVersion after its call of NormalizeGoVersion.
ParseNormalized(n) ==
    IF ~n.ok
    THEN [ok |-> FALSE, major |-> 0, minor |-> 0, patch |-> 0]
    ELSE ParsedParts(Split(TrimPrefix(n.v, <<"g", "o">>), "."))

\* versionutil.ParseGoVersion
ParseGoVersion(version) == ParseNormalized(NormalizeGoVersion(version))

\* The comparison of CompareGoVersions, on the two parsed versions.
ComparedParsed(x, y) ==
    IF ~x.ok \/ ~y.ok THEN [ok |-> FALSE, cmp |-> 0]
    ELSE IF x.major # y.major
    THEN [ok |-> TRUE, cmp |-> IF x.major < y.major THEN -1 ELSE 1]
    ELSE IF x.minor # y.minor
    THEN [ok |-> TRUE, cmp |-> IF x.minor < y.minor THEN -1 ELSE 1]
    ELSE IF x.patch # y.patch
    THEN [ok |-> TRUE, cmp |-> IF x.patch < y.patch THEN -1 ELSE 1]
    ELSE [ok |-> TRUE, cmp |-> 0]

\* versionutil.CompareGoVersions: each version is parsed once.
CompareGoVersions(a, b) ==
    CHOOSE c \in {ComparedParsed(x, y) : x \in {ParseGoVersion(a)}, y \in {ParseGoVersion(b)}} :
        TRUE

\* the dotted numbers of CompareDottedVersions' parse
ParseDotted(v) ==
    LET parts == Split(TrimPrefix(TrimSpace(v), <<"v">>), ".")
        nums == [i \in 1..Len(parts) |-> Atoi(parts[i])]
    IN  IF \E i \in 1..Len(parts) : ~nums[i].ok
        THEN [ok |-> FALSE, numbers |-> <<>>]
        ELSE [ok |-> TRUE, numbers |-> [i \in 1..Len(parts) |-> nums[i].n]]

\* The loop as a bug would have it: it stops after the first component.
CompareFrom_FirstOnly(a, b, i) ==
    LET aVal == IF i <= Len(a) THEN a[i] ELSE 0
        bVal == IF i <= Len(b) THEN b[i] ELSE 0
    IN  IF aVal < bVal THEN -1 ELSE IF aVal > bVal THEN 1 ELSE 0

RECURSIVE CompareFrom(_, _, _)
CompareFrom(a, b, i) ==
    LET aVal == IF i <= Len(a) THEN a[i] ELSE 0
        bVal == IF i <= Len(b) THEN b[i] ELSE 0
    IN  IF i > Len(a) /\ i > Len(b) THEN 0
        ELSE IF aVal < bVal THEN -1
        ELSE IF aVal > bVal THEN 1
        ELSE CompareFrom(a, b, i + 1)

\* versionutil.CompareDottedVersions: each version is parsed once.
CompareDottedVersions(a, b) ==
    CHOOSE c \in {IF ~x.ok \/ ~y.ok THEN [ok |-> FALSE, cmp |-> 0]
                  ELSE [ok |-> TRUE, cmp |-> CompareFrom(x.numbers, y.numbers, 1)] :
                  x \in {ParseDotted(a)}, y \in {ParseDotted(b)}} : TRUE

S_go190 == <<"g", "o", "1", ".", "9", ".", "0">>
S_go1100 == <<"g", "o", "1", ".", "1", "0", ".", "0">>
S_go1099 == <<"g", "o", "1", ".", "2", "0", ".", "9", "9">>
S_go1210 == <<"g", "o", "1", ".", "2", "1", ".", "0">>
S_go12299 == <<"g", "o", "1", ".", "2", "2", ".", "9", "9">>
S_go1230 == <<"g", "o", "1", ".", "2", "3", ".", "0">>
S_go12499 == <<"g", "o", "1", ".", "2", "4", ".", "9", "9">>
S_go100 == <<"g", "o", "1", ".", "0", ".", "0">>

L_v1542 == <<"v", "1", ".", "5", "4", ".", "2">>
L_v1572 == <<"v", "1", ".", "5", "7", ".", "2">>
L_v1648 == <<"v", "1", ".", "6", "4", ".", "8">>
L_v290 == <<"v", "2", ".", "9", ".", "0">>

\* tools.compatibilityRules
compatibilityRules ==
    << [MinGo |-> S_go100, MaxGo |-> S_go1099, LintVersion |-> L_v1542],
       [MinGo |-> S_go1210, MaxGo |-> S_go12299, LintVersion |-> L_v1572],
       [MinGo |-> S_go1230, MaxGo |-> S_go12499, LintVersion |-> L_v1648],
       [MinGo |-> S_go1250, MaxGo |-> <<>>, LintVersion |-> L_v290] >>

NotBelow(c) == c.ok /\ c.cmp >= 0

NotAbove(c) == c.ok /\ c.cmp <= 0

\* isWithinRange as a bug would have it: the upper end is not looked at.
isWithinRange_MinOnly(value, min, max) ==
    TrimSpace(min) # <<>> => NotBelow(CompareGoVersions(value, min))

\* tools.isWithinRange
isWithinRange(value, min, max) ==
    /\ TrimSpace(min) # <<>> => NotBelow(CompareGoVersions(value, min))
    /\ TrimSpace(max) # <<>> => NotAbove(CompareGoVersions(value, max))

LastRule == compatibilityRules[Len(compatibilityRules)].LintVersion

\* The loop of RecommendedGolangCILint over the rules, from rule i on.
RECURSIVE FirstRuleFrom(_, _)
FirstRuleFrom(normalized, i) ==
    IF i > Len(compatibilityRules) THEN LastRule
    ELSE IF isWithinRange(normalized, compatibilityRules[i].MinGo, compatibilityRules[i].MaxGo)
    THEN compatibilityRules[i].LintVersion
    ELSE FirstRuleFrom(normalized, i + 1)

\* RecommendedGolangCILint after its call of NormalizeGoVersion.
RecommendedNormalized(n) == IF ~n.ok THEN LastRule ELSE FirstRuleFrom(n.v, 1)

\* tools.RecommendedGolangCILint
RecommendedGolangCILint(goVersion) == RecommendedNormalized(NormalizeGoVersion(goVersion))

\* The toolchain versions of this component: 1.9 sorts above 1.10 as a string
\* and below it as a version.
SVersions == {S_go190, S_go1100, S_go1250}

\* The list as a bug would sort it: by the strings.
RECURSIVE StringLess(_, _)
StringLess(a, b) ==
    IF b = <<>> THEN FALSE
    ELSE IF a = <<>> THEN TRUE
    ELSE IF Head(a) = Head(b) THEN StringLess(Tail(a), Tail(b))
    ELSE \E i, j \in 1..10 : Digits[i] = Head(a) /\ Digits[j] = Head(b) /\ i < j

Newer_ByString(a, b) == StringLess(b, a)

\* CompareGoVersions on the versions of this component, computed once.
GoVersionOrder == [a \in SVersions |-> [b \in SVersions |-> CompareGoVersions(a, b)]]

\* the less function of ListInstalledVersions' sort.Slice
Newer(a, b) == GoVersionOrder[a][b].cmp > 0

\* The name os.MkdirTemp gives the extraction directory (".tmp-toolchain-" and
\* a random suffix).
S_tmpToolchain ==
    <<".", "t", "m", "p", "-", "t", "o", "o", "l", "c", "h", "a", "i", "n", "-", "1">>

\* NormalizeGoVersion on the strings of this component, computed once.
NormalizedInput ==
    [v \in SVersions \cup {S_latest, S_tmpToolchain, <<"b">>} |-> NormalizeGoVersion(v)]

\* The insertion of x into a sorted list: before the first element it precedes.
RECURSIVE Inserted(_, _)
Inserted(x, sorted) ==
    IF sorted = <<>> THEN <<x>>
    ELSE IF Newer(x, Head(sorted)) THEN <<x>> \o sorted
    ELSE <<Head(sorted)>> \o Inserted(x, Tail(sorted))

\* sort.Slice with the less function Newer.
RECURSIVE SortSlice(_)
SortSlice(versions) ==
    IF versions = <<>> THEN <<>>
    ELSE Inserted(Head(versions), SortSlice(Tail(versions)))

\* The test as a bug would have it: the error of Stat is not looked at.
ToolchainExists_Always(tc, v) == TRUE

\* switcher.ToolchainExists: bin/go under the version's directory
ToolchainExists(tc, v) == tc[v] = "installed"

\* The loop body as a bug would have it: bin/go is not looked for.
ListedEntry_AnyDir(tc, name) ==
    tc[name] \in {"partial", "installed"} /\ NormalizedInput[name].ok

\* The loop body of ListInstalledVersions: the entry is a directory, its name
\* normalizes, and bin/go is found under it.
ListedEntry(tc, name) ==
    /\ tc[name] \in {"partial", "installed"}
    /\ NormalizedInput[name].ok
    /\ tc[name] = "installed"

\* The loop of ListInstalledVersions over the entries of the toolchains
\* directory: the normalized names of the entries it keeps.
RECURSIVE Collect(_, _)
Collect(tc, names) ==
    IF names = {} THEN <<>>
    ELSE LET entry == CHOOSE n \in names : TRUE
             rest == names \ {entry}
         IN  IF ListedEntry(tc, entry)
             THEN <<NormalizedInput[entry].v>> \o Collect(tc, rest)
             ELSE Collect(tc, rest)

\* switcher.ListInstalledVersions: the directories holding bin/go, newest first
ListInstalledVersions(tc) == SortSlice(Collect(tc, DOMAIN tc))

LintVersions == {L_v1542, L_v1572, L_v1648, L_v290}

\* Config.GolangCILintByGo: <<>> stands for a key that is not in the map.
NoEntry == <<>>
EmptyMapping == [v \in SVersions |-> NoEntry]
RecommendedMapping == [v \in SVersions |-> RecommendedGolangCILint(v)]

\* What a config may hold as the companion version of a toolchain version:
\* a version of the table, one older or newer than all of them, the same
\* version written in another way, and strings that are not versions.
L_v1610 == <<"v", "1", ".", "6", "1", ".", "0">>
L_v999 == <<"v", "9", ".", "9", ".", "9">>
L_29 == <<"2", ".", "9">>
L_v2 == <<"v", "2">>
L_v2901 == <<"v", "2", ".", "9", ".", "0", ".", "1">>
L_blank == <<" ">>
StoredVersions ==
    LintVersions \cup {L_v1610, L_v999, L_29, L_v2, L_v2901, L_blank, S_latest, NoEntry}

\* CompareDottedVersions of a stored version and a version of the table,
\* computed once.
LintVersionOrder ==
    [a \in StoredVersions |-> [b \in LintVersions |-> CompareDottedVersions(a, b)]]

\* config.json as a document with both fields of Config.
ConfigDoc(g, lint) == [kind |-> "doc", GlobalVersion |-> g, GolangCILintByGo |-> lint]

\* switcher.ReadConfig, with the companion mapping.
ReadConfigDoc(file) ==
    CASE file.kind = "absent"  ->
            [err |-> NoErr, GlobalVersion |-> <<>>, GolangCILintByGo |-> EmptyMapping]
      [] file.kind = "corrupt" ->
            [err |-> ErrOther, GlobalVersion |-> <<>>, GolangCILintByGo |-> EmptyMapping]
      [] OTHER ->
            [err |-> NoErr, GlobalVersion |-> file.GlobalVersion,
             GolangCILintByGo |-> file.GolangCILintByGo]

\* switcher.WriteConfig: the document that a successful write leaves.
WriteConfig(cfg) == ConfigDoc(cfg.GlobalVersion, cfg.GolangCILintByGo)

\* switcher.DeleteInstalledVersion: the version's directory is removed.
DeleteInstalledVersion(tc, version) == [tc EXCEPT ![version] = "absent"]

\* switcher.SetLocalVersionAtPath: the pin file at path holds version and a newline.
SetLocalVersionAtPath(pins, path, version) ==
    [pins EXCEPT ![path] = PinFile(version \o <<"\n">>)]

\* switcher.ClearLocalVersionAtPath: the pin file at path is removed.
ClearLocalVersionAtPath(pins, path) == [pins EXCEPT ![path] = PinAbsent]

\* switcher.SetGlobalVersion: read, set the field, write.
SetGlobalVersion(file, version) ==
    LET cfg == ReadConfigDoc(file)
    IN  IF cfg.err # NoErr THEN [err |-> cfg.err, file |-> file]
        ELSE [err |-> NoErr, file |-> WriteConfig([cfg EXCEPT !.GlobalVersion = version])]

\* switcher.ClearGlobalVersion: read, blank the field, write.
ClearGlobalVersion(file) == SetGlobalVersion(file, <<>>)

\* The version EnsureForGoVersionWithOptions settles on for goVersion: the
\* stored one unless it is blank, not a dotted version, or older than the
\* recommended one.
Ensured(stored, recommended) ==
    IF TrimSpace(stored) = <<>> THEN recommended
    ELSE IF ~NotBelow(LintVersionOrder[stored][recommended]) THEN recommended
    ELSE stored

EnsuredLintVersion(lint, goVersion) == Ensured(lint[goVersion], RecommendedMapping[goVersion])

\* DeleteResult
NoResult ==
    [DeletedVersion |-> <<>>, WasActive |-> FALSE, SwitchedToNewest |-> FALSE,
     ActiveAfter |-> NoActive(NoErr), ToolSyncWarning |-> NoErr]

ServiceDirs == Dirs

Snapshot ==
    [pinFiles |-> pinFiles, cfgFile |-> cfgFile, toolchains |-> toolchains,
     lintBins |-> lintBins]

MaxCalls == 1

ServiceIdle ==
    [op |-> "none", pc |-> "idle", cwd |-> 0, version |-> <<>>, scope |-> Nil,
     active |-> NoActive(NoErr), newest |-> <<>>, goVersion |-> <<>>,
     cfg |-> ReadConfigDoc(CfgAbsent), lintVersion |-> <<>>,
     err |-> NoErr, syncErr |-> NoErr, result |-> NoResult, log |-> <<>>,
     before |-> Nil, calls |-> 0]

\* A call of operation op begins: the state before it is remembered.
Begun(op, cwd) ==
    [ServiceIdle EXCEPT !.op = op, !.cwd = cwd, !.before = Snapshot,
                        !.calls = scall.calls + 1]

\* The call returns e (and, for a delete, the zero DeleteResult).
Failed(call, e) == [call EXCEPT !.pc = "done", !.err = e, !.result = NoResult,
                                !.lintVersion = <<>>]

Ran(call, step) == [call EXCEPT !.log = Append(call.log, step)]

CanBegin == scall.pc \in {"idle", "done"} /\ scall.calls < MaxCalls

\* Service.Current
Current(cwd) == ResolveActiveVersion([dir |-> cwd, isFile |-> FALSE], pinFiles, cfgFile)

\* DeleteInstalledWithProgress up to the removal: normalize, Current.
DeleteBegin(cwd, version) ==
    /\ CanBegin
    /\ LET n == NormalizedInput[version]
           active == Current(cwd)
           call == Begun("delete", cwd)
       IN  scall' =
             IF ~n.ok THEN Failed(call, "normalize")
             ELSE IF active.err \notin {NoErr, ErrNoActiveVersion} THEN Failed(call, "current")
             ELSE [call EXCEPT !.pc = "remove", !.version = n.v, !.active = active]
    /\ UNCHANGED <<pinFiles, cfgFile, toolchains, lintBins>>

\* switcher.DeleteInstalledVersion and its error return.
DeleteRemove ==
    /\ scall.op = "delete" /\ scall.pc = "remove"
    /\ \E ok \in BOOLEAN :
          IF ok
          THEN /\ toolchains' = DeleteInstalledVersion(toolchains, scall.version)
               /\ scall' = [Ran(scall, "remove") EXCEPT !.pc = "mapping"]
          ELSE /\ scall' = Failed(Ran(scall, "remove"), "remove")
               /\ UNCHANGED toolchains
    /\ UNCHANGED <<pinFiles, cfgFile, lintBins>>

\* The return of the branch for a version that was not the active one.
DeletedInactive(call) ==
    LET current == Current(call.cwd)
    IN  [call EXCEPT !.pc = "done",
                     !.result = [NoResult EXCEPT
                                   !.DeletedVersion = call.version,
                                   !.ActiveAfter = IF current.err = NoErr THEN current
                                                   ELSE NoActive(NoErr)]]

\* The branch condition as a bug would have it: every delete reassigns.
NotTheActive_Never(call) == FALSE

\* The branch condition as another bug would have it: no delete reassigns.
NotTheActive_Always(call) == TRUE

\* !hasActive || active.Version != normalized
NotTheActive(call) == call.active.err # NoErr \/ call.active.Version # call.version

\* deleteLintMapping, then the branch on whether the version was active.
DeleteMapping ==
    /\ scall.op = "delete" /\ scall.pc = "mapping"
    /\ LET cfg == ReadConfigDoc(cfgFile)
           call == Ran(scall, "mapping")
           after == IF NotTheActive(scall)
                    THEN DeletedInactive(call)
                    ELSE [call EXCEPT !.pc = "reassign",
                                      !.result = [NoResult EXCEPT
                                                    !.DeletedVersion = call.version,
                                                    !.WasActive = TRUE]]
       IN  IF cfg.err # NoErr
           THEN scall' = Failed(call, "mapping") /\ UNCHANGED cfgFile
           ELSE IF cfg.GolangCILintByGo[scall.version] = NoEntry
           THEN scall' = after /\ UNCHANGED cfgFile
           ELSE \E ok \in BOOLEAN :
                   IF ok
                   THEN /\ cfgFile' = WriteConfig([cfg EXCEPT
                                         !.GolangCILintByGo[scall.version] = NoEntry])
                        /\ scall' = after
                   ELSE scall' = Failed(call, "mapping") /\ UNCHANGED cfgFile
    /\ UNCHANGED <<pinFiles, toolchains, lintBins>>

\* ListLocal, then the pin is cleared (nothing remains) or set to the newest.
DeleteReassign ==
    /\ scall.op = "delete" /\ scall.pc = "reassign"
    /\ LET remaining == ListInstalledVersions(toolchains)
           call == Ran(scall, "reassign")
           local == scall.active.Scope = ScopeLocal
           target == IF remaining = <<>> THEN <<>> ELSE remaining[1]
           global == SetGlobalVersion(cfgFile, target)
           after == IF remaining = <<>>
                    THEN [call EXCEPT !.pc = "done"]
                    ELSE [call EXCEPT !.pc = "shims", !.newest = target,
                                      !.result.SwitchedToNewest = TRUE]
       IN  \E listed \in BOOLEAN, ok \in BOOLEAN :
              IF ~listed
              THEN scall' = Failed(call, "list") /\ UNCHANGED <<pinFiles, cfgFile>>
              ELSE IF ~ok \/ (~local /\ global.err # NoErr)
              THEN scall' = Failed(call, "reassign") /\ UNCHANGED <<pinFiles, cfgFile>>
              ELSE IF local
              THEN /\ pinFiles' = IF remaining = <<>>
                                  THEN ClearLocalVersionAtPath(pinFiles, scall.active.Source)
                                  ELSE SetLocalVersionAtPath(pinFiles, scall.active.Source, target)
                   /\ scall' = after
                   /\ UNCHANGED cfgFile
              ELSE /\ cfgFile' = global.file
                   /\ scall' = after
                   /\ UNCHANGED pinFiles
    /\ UNCHANGED <<toolchains, lintBins>>

\* EnsureShims after the reassignment.
DeleteShims ==
    /\ scall.op = "delete" /\ scall.pc = "shims"
    /\ \E ok \in BOOLEAN :
          scall' = IF ok THEN [Ran(scall, "shims") EXCEPT !.pc = "sync", !.goVersion = scall.newest]
                   ELSE Failed(Ran(scall, "shims"), "shims")
    /\ UNCHANGED <<pinFiles, cfgFile, toolchains, lintBins>>

\* The last lines of the delete: Current fills ActiveAfter.
DeleteCurrent ==
    /\ scall.op = "delete" /\ scall.pc = "current"
    /\ LET current == Current(scall.cwd)
       IN  scall' = [scall EXCEPT !.pc = "done",
                                  !.result.ActiveAfter = IF current.err = NoErr THEN current
                                                         ELSE NoActive(NoErr)]
    /\ UNCHANGED <<pinFiles, cfgFile, toolchains, lintBins>>

\* UseWithProgress up to the install: normalize, ToolchainExists.
UseBegin(version, scope, cwd) ==
    /\ CanBegin
    /\ LET n == NormalizedInput[version]
           call == [Begun("use", cwd) EXCEPT !.scope = scope]
       IN  scall' =
             IF ~n.ok THEN Failed(call, "normalize")
             ELSE [call EXCEPT !.version = n.v,
                               !.pc = IF ToolchainExists(toolchains, n.v) THEN "set"
                                      ELSE "install"]
    /\ UNCHANGED <<pinFiles, cfgFile, toolchains, lintBins>>

\* InstallWithProgress as Use sees it: it fails before the toolchain is in
\* place, or in its own EnsureShims after that, or it succeeds.
UseInstall ==
    /\ scall.op = "use" /\ scall.pc = "install"
    /\ \E outcome \in {"ok", "failed", "shims"} :
          /\ toolchains' = IF outcome = "failed" THEN toolchains
                           ELSE [toolchains EXCEPT ![scall.version] = "installed"]
          /\ scall' = IF outcome = "ok" THEN [Ran(scall, "install") EXCEPT !.pc = "set"]
                      ELSE Failed(Ran(scall, "install"), "install")
    /\ UNCHANGED <<pinFiles, cfgFile, lintBins>>

\* switcher.SetActiveVersion as called by Use.
UseSetActive ==
    /\ scall.op = "use" /\ scall.pc = "set"
    /\ LET call == Ran(scall, "set")
           global == SetGlobalVersion(cfgFile, scall.version)
       IN  \E ok \in BOOLEAN :
              IF ~ok \/ (scall.scope = ScopeGlobal /\ global.err # NoErr)
              THEN scall' = Failed(call, "set") /\ UNCHANGED <<pinFiles, cfgFile>>
              ELSE IF scall.scope = ScopeLocal
              THEN /\ pinFiles' = SetLocalVersionAtPath(pinFiles, scall.cwd, scall.version)
                   /\ scall' = [call EXCEPT !.pc = "shims"]
                   /\ UNCHANGED cfgFile
              ELSE /\ cfgFile' = global.file
                   /\ scall' = [call EXCEPT !.pc = "shims"]
                   /\ UNCHANGED pinFiles
    /\ UNCHANGED <<toolchains, lintBins>>

\* EnsureShims as called by Use.
UseShims ==
    /\ scall.op = "use" /\ scall.pc = "shims"
    /\ \E ok \in BOOLEAN :
          scall' = IF ok THEN [Ran(scall, "shims") EXCEPT !.pc = "sync",
                                                          !.goVersion = scall.version]
                   ELSE Failed(Ran(scall, "shims"), "shims")
    /\ UNCHANGED <<pinFiles, cfgFile, toolchains, lintBins>>

\* Service.SyncToolsForVersion called on its own.
SyncBegin(goVersion) ==
    /\ CanBegin
    /\ scall' = [Begun("sync", 0) EXCEPT !.pc = "sync", !.goVersion = goVersion]
    /\ UNCHANGED <<pinFiles, cfgFile, toolchains, lintBins>>

\* The callers as a bug would have them: the delete returns the error too.
SyncFailed_Fatal(call, e) == [Failed(call, e) EXCEPT !.syncErr = e]

\* The callers as a bug would have them: the error is dropped by all of them.
SyncFailed_Swallowed(call, e) ==
    [call EXCEPT !.pc = IF call.op = "delete" THEN "current" ELSE "done", !.syncErr = e]

\* What the caller of SyncToolsForVersionWithProgress does with its error: the
\* delete keeps it as a warning and goes on, Use and SyncToolsForVersion return it.
SyncFailed(call, e) ==
    IF call.op = "delete"
    THEN [call EXCEPT !.pc = "current", !.syncErr = e, !.result.ToolSyncWarning = e]
    ELSE [Failed(call, e) EXCEPT !.syncErr = e]

SyncReturned(call) ==
    IF call.op = "delete" THEN [call EXCEPT !.pc = "current"]
    ELSE [call EXCEPT !.pc = "done"]

\* The sync as a bug would have it: the mapping is persisted before the
\* companion binary is looked for.
SyncEnsure_WritesFirst ==
    /\ scall.pc = "sync"
    /\ LET cfg == ReadConfigDoc(cfgFile)
           call == Ran(scall, "sync")
           lintVersion == EnsuredLintVersion(cfg.GolangCILintByGo, scall.goVersion)
           mapped == [cfg EXCEPT !.GolangCILintByGo[scall.goVersion] = lintVersion]
           after == [call EXCEPT !.pc = "syncWrite", !.lintVersion = lintVersion,
                                 !.cfg = mapped]
       IN  IF cfg.err # NoErr
           THEN scall' = SyncFailed(call, "sync: read config") /\ UNCHANGED <<lintBins, cfgFile>>
           ELSE /\ cfgFile' = WriteConfig(mapped)
                /\ \E ok \in BOOLEAN :
                      IF ok
                      THEN lintBins' = lintBins \cup {lintVersion} /\ scall' = after
                      ELSE scall' = SyncFailed(call, "sync: install") /\ UNCHANGED lintBins
    /\ UNCHANGED <<pinFiles, toolchains>>

\* SyncToolsForVersionWithProgress: ReadConfig, then the companion binary is
\* found or installed for the version settled on.
SyncEnsure ==
    /\ scall.pc = "sync"
    /\ LET cfg == ReadConfigDoc(cfgFile)
           call == Ran(scall, "sync")
           lintVersion == EnsuredLintVersion(cfg.GolangCILintByGo, scall.goVersion)
           after == [call EXCEPT !.pc = "syncWrite", !.lintVersion = lintVersion,
                                 !.cfg = [cfg EXCEPT !.GolangCILintByGo[scall.goVersion] =
                                                        lintVersion]]
       IN  IF cfg.err # NoErr
           THEN scall' = SyncFailed(call, "sync: read config") /\ UNCHANGED lintBins
           ELSE IF lintVersion \in lintBins
           THEN scall' = after /\ UNCHANGED lintBins
           ELSE \E ok \in BOOLEAN :
                   IF ok
                   THEN lintBins' = lintBins \cup {lintVersion} /\ scall' = after
                   ELSE scall' = SyncFailed(call, "sync: install") /\ UNCHANGED lintBins
    /\ UNCHANGED <<pinFiles, cfgFile, toolchains>>

\* SyncToolsForVersionWithProgress: WriteConfig of the config held in memory.
SyncWrite ==
    /\ scall.pc = "syncWrite"
    /\ \E ok \in BOOLEAN :
          IF ok
          THEN /\ cfgFile' = WriteConfig(scall.cfg)
               /\ scall' = SyncReturned(Ran(scall, "syncWrite"))
          ELSE /\ scall' = SyncFailed(Ran(scall, "syncWrite"), "sync: write config")
               /\ UNCHANGED cfgFile
    /\ UNCHANGED <<pinFiles, toolchains, lintBins>>

UseInputs == SVersions \cup {S_latest}

ServicePinStates == {PinAbsent, PinFile(S_go190 \o <<"\n">>), PinFile(S_go1250 \o <<"\n">>)}

ServiceCfgStates ==
    {CfgAbsent, CfgCorrupt,
     ConfigDoc(<<>>, EmptyMapping), ConfigDoc(S_go190, RecommendedMapping),
     ConfigDoc(S_go1250, EmptyMapping), ConfigDoc(S_go1250, RecommendedMapping)}

InitService ==
    /\ pinFiles \in [ServiceDirs -> ServicePinStates]
    /\ cfgFile \in ServiceCfgStates
    /\ toolchains \in [SVersions -> {"absent", "installed"}]
    /\ lintBins \in {{}, LintVersions}
    /\ scall = ServiceIdle

NextService ==
    \/ \E cwd \in ServiceDirs, v \in UseInputs : DeleteBegin(cwd, v) /\ UNCHANGED otherThanService
    \/ DeleteRemove /\ UNCHANGED otherThanService
    \/ DeleteMapping /\ UNCHANGED otherThanService
    \/ DeleteReassign /\ UNCHANGED otherThanService
    \/ DeleteShims /\ UNCHANGED otherThanService
    \/ DeleteCurrent /\ UNCHANGED otherThanService
    \/ \E v \in UseInputs, s \in {ScopeLocal, ScopeGlobal}, cwd \in ServiceDirs :
          UseBegin(v, s, cwd) /\ UNCHANGED otherThanService
    \/ UseInstall /\ UNCHANGED otherThanService
    \/ UseSetActive /\ UNCHANGED otherThanService
    \/ UseShims /\ UNCHANGED otherThanService
    \/ \E v \in SVersions : SyncBegin(v) /\ UNCHANGED otherThanService
    \/ SyncEnsure /\ UNCHANGED otherThanService
    \/ SyncWrite /\ UNCHANGED otherThanService

\* The call that has returned, and the state it began in.
CallReturned(op) == scall.op = op /\ scall.pc = "done"

Succeeded(op) == CallReturned(op) /\ scall.err = NoErr

ActiveBefore ==
    ResolveActiveVersion([dir |-> scall.cwd, isFile |-> FALSE],
                         scall.before.pinFiles, scall.before.cfgFile)

WasActiveBefore == ActiveBefore.err = NoErr /\ ActiveBefore.Version = scall.version

RemainingBefore ==
    {v \in SVersions \ {scall.version} : scall.before.toolchains[v] = "installed"}

VersionNumber(v) ==
    LET p == ParseGoVersion(v) IN p.major * 10000 + p.minor * 100 + p.patch

VersionNumbers == [v \in SVersions |-> VersionNumber(v)]

Greatest(S) == CHOOSE x \in S : \A y \in S : VersionNumbers[y] <= VersionNumbers[x]

\* The pin at the source the active version came from holds version v.
PinAtSourceIs(active, v) ==
    IF active.Scope = ScopeLocal
    THEN pinFiles[active.Source] = PinFile(v \o <<"\n">>)
    ELSE cfgFile.kind = "doc" /\ cfgFile.GlobalVersion = v

(***************************************************************************)
(* C13: a DeleteInstalled that returns without error, of the version that  *)
(* was active for cwd while at least one other version is installed, has   *)
(* rewritten the pin at the active source (the pin file found, or the      *)
(* config's global version) to the greatest remaining installed version by *)
(* version comparison, reports WasActive and SwitchedToNewest, and leaves  *)
(* the deleted version's directory absent.                                 *)
(***************************************************************************)
C13_DeleteActiveSwitchesToNewest ==
    (Succeeded("delete") /\ WasActiveBefore /\ RemainingBefore # {}) =>
        /\ PinAtSourceIs(ActiveBefore, Greatest(RemainingBefore))
        /\ scall.result.WasActive
        /\ scall.result.SwitchedToNewest
        /\ scall.result.DeletedVersion = scall.version
        /\ toolchains[scall.version] = "absent"

\* go1.25.0 was active through a pin above cwd and is deleted while go1.9.0 and
\* go1.10.0 remain: the pin now names go1.10.0.
C13_Witness ==
    /\ Succeeded("delete") /\ WasActiveBefore
    /\ RemainingBefore = {S_go190, S_go1100}
    /\ scall.before.toolchains[scall.version] = "installed"
    /\ ActiveBefore.Scope = ScopeLocal
    /\ ActiveBefore.Source < scall.cwd
    /\ pinFiles[ActiveBefore.Source] = PinFile(S_go1100 \o <<"\n">>)

(***************************************************************************)
(* C14: a DeleteInstalled that returns without error, of the version that  *)
(* was active for cwd while no other version is installed, has removed the *)
(* local pin file it was found in (local scope) or blanked the config's    *)
(* global version (global scope), and returns WasActive true, with         *)
(* SwitchedToNewest false and an empty ActiveAfter.                        *)
(***************************************************************************)
C14_DeleteLastActiveClearsPin ==
    (Succeeded("delete") /\ WasActiveBefore /\ RemainingBefore = {}) =>
        /\ ActiveBefore.Scope = ScopeLocal => pinFiles[ActiveBefore.Source] = PinAbsent
        /\ ActiveBefore.Scope = ScopeGlobal =>
              /\ cfgFile.kind = "doc"
              /\ cfgFile.GlobalVersion = <<>>
        /\ scall.result.WasActive
        /\ ~scall.result.SwitchedToNewest
        /\ scall.result.ActiveAfter.Version = <<>>
        /\ toolchains[scall.version] = "absent"

\* The only installed version, pinned in cwd, is deleted: the pin file is gone.
C14_Witness ==
    /\ Succeeded("delete") /\ WasActiveBefore /\ RemainingBefore = {}
    /\ scall.before.toolchains[scall.version] = "installed"
    /\ ActiveBefore.Scope = ScopeLocal
    /\ ActiveBefore.Source = scall.cwd
    /\ pinFiles[scall.cwd] = PinAbsent

(***************************************************************************)
(* C15: throughout and after a DeleteInstalled of a version that is not    *)
(* the active one for cwd (another version is active, or none), every pin  *)
(* file and the config's global version are as before the call, and so are *)
(* the directories and the mapping entries of all other versions and the   *)
(* companion binaries.                                                     *)
(***************************************************************************)
C15_DeleteInactiveFrame ==
    (scall.op = "delete" /\ ~WasActiveBefore) =>
        /\ pinFiles = scall.before.pinFiles
        /\ cfgFile.kind = scall.before.cfgFile.kind
        /\ ReadConfigDoc(cfgFile).GlobalVersion =
              ReadConfigDoc(scall.before.cfgFile).GlobalVersion
        /\ \A v \in SVersions \ {scall.version} :
              /\ toolchains[v] = scall.before.toolchains[v]
              /\ ReadConfigDoc(cfgFile).GolangCILintByGo[v] =
                    ReadConfigDoc(scall.before.cfgFile).GolangCILintByGo[v]
        /\ lintBins = scall.before.lintBins

\* An installed version with a mapping entry is deleted while another one is
\* active: its directory and its entry are gone.
C15_Witness ==
    /\ Succeeded("delete") /\ ~WasActiveBefore
    /\ ActiveBefore.err = NoErr
    /\ scall.before.toolchains[scall.version] = "installed"
    /\ toolchains[scall.version] = "absent"
    /\ ReadConfigDoc(scall.before.cfgFile).GolangCILintByGo[scall.version] # NoEntry
    /\ ReadConfigDoc(cfgFile).GolangCILintByGo[scall.version] = NoEntry
    /\ scall.result.ActiveAfter.Version = ActiveBefore.Version

(***************************************************************************)
(* C16: a DeleteInstalled whose re-sync of the companion tool failed, after *)
(* the pin was reassigned to the newest remaining version, returns without *)
(* error: the result carries the error text in ToolSyncWarning, the pin at *)
(* the active source still names the newest remaining version, and the     *)
(* deleted version's directory is absent.                                  *)
(***************************************************************************)
C16_ResyncFailureIsWarning ==
    (CallReturned("delete") /\ scall.syncErr # NoErr) =>
        /\ scall.err = NoErr
        /\ scall.result.ToolSyncWarning = scall.syncErr
        /\ scall.result.WasActive
        /\ scall.result.SwitchedToNewest
        /\ scall.result.DeletedVersion = scall.version
        /\ RemainingBefore # {}
        /\ PinAtSourceIs(ActiveBefore, Greatest(RemainingBefore))
        /\ scall.result.ActiveAfter.Version = Greatest(RemainingBefore)
        /\ toolchains[scall.version] = "absent"

\* The companion tool of the newest remaining version could not be installed.
C16_Witness ==
    /\ CallReturned("delete")
    /\ scall.syncErr = "sync: install"
    /\ scall.before.toolchains[scall.version] = "installed"
    /\ scall.result.ToolSyncWarning = "sync: install"
    /\ scall.result.ActiveAfter.Version = S_go1100

IsPrefix(p, q) == Len(p) <= Len(q) /\ \A i \in 1..Len(p) : p[i] = q[i]

\* The steps of Use in the order of the claim; the sync is a read-and-ensure
\* followed by the write of the config.
UseOrder ==
    IF scall.before.toolchains[scall.version] = "installed"
    THEN <<"set", "shims", "sync", "syncWrite">>
    ELSE <<"install", "set", "shims", "sync", "syncWrite">>

SyncErrors == {"sync: read config", "sync: install", "sync: write config"}

StepOf(e) ==
    CASE e = "sync: write config" -> "syncWrite"
      [] e \in SyncErrors -> "sync"
      [] OTHER -> e

\* The pin that the second step of Use writes.
UsePinWritten ==
    IF scall.scope = ScopeLocal
    THEN pinFiles[scall.cwd] = PinFile(scall.version \o <<"\n">>)
    ELSE cfgFile.kind = "doc" /\ cfgFile.GlobalVersion = scall.version

(***************************************************************************)
(* C17: the steps a Use has run are always an initial part of: install     *)
(* (only when the toolchain was absent), set active version, refresh       *)
(* shims, sync companion tool.  A Use that returns without error ran them  *)
(* all; one that returns an error stopped at the step that failed, and     *)
(* returns the error of the sync when the sync failed; when the shims or   *)
(* the sync failed, the pin written by the second step is still in place.  *)
(***************************************************************************)
C17_UseStepsInOrder ==
    scall.op = "use" =>
        /\ scall.version = <<>> =>
              scall.log = <<>> /\ scall.pc = "done" /\ scall.err = "normalize"
        /\ scall.version # <<>> =>
              /\ IsPrefix(scall.log, UseOrder)
              /\ scall.pc # "done" => scall.err = NoErr
              /\ scall.pc = "done" =>
                    /\ scall.err = NoErr => scall.log = UseOrder /\ scall.syncErr = NoErr
                    /\ scall.err # NoErr =>
                          /\ scall.log # <<>>
                          /\ scall.log[Len(scall.log)] = StepOf(scall.err)
                    /\ scall.syncErr # NoErr => scall.err = scall.syncErr
                    /\ scall.err \in {"shims"} \cup SyncErrors => UsePinWritten
                    /\ scall.err \in {"install", "set"} =>
                          pinFiles = scall.before.pinFiles /\ cfgFile = scall.before.cfgFile

\* A Use that installed the toolchain, replaced the pin in cwd, refreshed the
\* shims and then failed to install the companion tool.
C17_Witness ==
    /\ CallReturned("use")
    /\ scall.err = "sync: install"
    /\ scall.log = <<"install", "set", "shims", "sync">>
    /\ scall.scope = ScopeLocal
    /\ scall.before.pinFiles[scall.cwd] \notin {PinAbsent, pinFiles[scall.cwd]}
    /\ UsePinWritten

(***************************************************************************)
(* C18: a step of the sync changes the persisted config only as its last   *)
(* step, when the binary of the companion version it settled on is present *)
(* (found or installed), and then the config maps the Go version to that   *)
(* companion version; a step of the sync that fails leaves the config as   *)
(* it is.  So a SyncToolsForVersion that returns an error leaves the       *)
(* config as it was before the call, and one that returns without error    *)
(* leaves the mapping written and the binary present.                      *)
(***************************************************************************)
C18_MappingWrittenAfterBinaryPresent ==
    /\ [](CallReturned("sync") =>
             /\ scall.err # NoErr => cfgFile = scall.before.cfgFile
             /\ scall.err = NoErr =>
                   /\ scall.lintVersion \in lintBins
                   /\ cfgFile.kind = "doc"
                   /\ cfgFile.GolangCILintByGo[scall.goVersion] = scall.lintVersion)
    /\ [][/\ (scall.pc \in {"sync", "syncWrite"} /\ cfgFile' # cfgFile) =>
                /\ scall.pc = "syncWrite"
                /\ scall.lintVersion \in lintBins
                /\ cfgFile'.GolangCILintByGo[scall.goVersion] = scall.lintVersion
          /\ (scall.pc \in {"sync", "syncWrite"} /\ scall'.syncErr # NoErr) =>
                cfgFile' = cfgFile]_vars

\* The companion binary was missing and could not be installed: the config
\* still has no entry for the Go version.
C18_Witness ==
    /\ CallReturned("sync")
    /\ scall.err = "sync: install"
    /\ cfgFile.kind = "doc"
    /\ cfgFile.GolangCILintByGo[scall.goVersion] = NoEntry
    /\ RecommendedMapping[scall.goVersion] \notin lintBins

(***************************************************************************)
(* The entry of the service's operations                                   *)
(*                                                                         *)
(* What a call does before it returns an input error or begins its work:   *)
(* the accesses to the file system and to the network it makes, in order.  *)
(***************************************************************************)
ErrUnsupportedTool == "unsupported tool"
ErrInvalidVersion == "invalid version"
ErrNotInstalled == "binary not found"

Tools == {"go", "gofmt", "golangci-lint", "gopls"}

EntryVersions == {S_go1250, S_124, S_latest, S_rc}

\* The loop of FindLocalVersion: one os.ReadFile for each directory it visits.
RECURSIVE ReadsFrom(_, _)
ReadsFrom(pins, current) ==
    <<"read pin">> \o
        (IF pins[current].kind = "absent" /\ Parent(current) # current
         THEN ReadsFrom(pins, Parent(current))
         ELSE <<>>)

\* FindLocalVersion: os.Stat of the start, then the loop.
FindAccesses(pins, start) == <<"stat cwd">> \o ReadsFrom(pins, start.dir)

\* ReadConfig: EnsureLayout (os.MkdirAll), then os.ReadFile of the config.
ReadConfigAccesses == <<"mkdir layout", "read config">>

\* ResolveActiveVersion: the config is read when no pin file answered.
ResolveAccesses(cwd, pins) ==
    LET local == FindLocalVersion(pins, cwd)
    IN  FindAccesses(pins, cwd) \o
            (IF local.err # NoErr \/ local.found THEN <<>> ELSE ReadConfigAccesses)

EntryIdle ==
    [op |-> "none", pc |-> "idle", tool |-> "", version |-> <<>>,
     cwd |-> [dir |-> 0, isFile |-> FALSE], err |-> NoErr, io |-> <<>>]

\* Service.ResolveBinaryForTool
ResolveBinaryForTool(cwd, tool) ==
    LET active == ResolveActiveVersion(cwd, pinFiles, cfgFile)
        cfg == ReadConfig(cfgFile)
        call == [EntryIdle EXCEPT !.op = "ResolveBinaryForTool", !.pc = "done",
                                  !.tool = tool, !.cwd = cwd,
                                  !.io = ResolveAccesses(cwd, pinFiles)]
    IN  /\ IF active.err # NoErr
           THEN ecall' = [call EXCEPT !.err = active.err]
           ELSE IF tool \in {"go", "gofmt"}
           THEN \E present \in BOOLEAN :
                   ecall' = [call EXCEPT
                               !.io = call.io \o <<"stat binary">>,
                               !.err = IF present THEN NoErr ELSE ErrNotInstalled]
           ELSE IF tool = "golangci-lint"
           THEN IF cfg.err # NoErr
                THEN ecall' = [call EXCEPT !.io = call.io \o ReadConfigAccesses,
                                           !.err = ErrOther]
                ELSE \E present \in BOOLEAN :
                        ecall' = [call EXCEPT
                                    !.io = call.io \o ReadConfigAccesses \o <<"stat binary">>,
                                    !.err = IF present THEN NoErr ELSE ErrNotInstalled]
           ELSE ecall' = [call EXCEPT !.err = ErrUnsupportedTool]
        /\ UNCHANGED <<pinFiles, cfgFile>>

\* The first lines of an operation that takes a version: NormalizeGoVersion
\* and its error return, then the operation's first access.
Entered(op, version, cwd, first) ==
    LET n == NormalizeGoVersion(version)
        call == [EntryIdle EXCEPT !.op = op, !.version = version, !.cwd = cwd]
    IN  IF ~n.ok
        THEN [call EXCEPT !.pc = "done", !.err = ErrInvalidVersion]
        ELSE [call EXCEPT !.pc = "running", !.io = first]

\* InstallWithProgress up to ReleaseClient.Fetch.
EnterInstall(version) ==
    /\ ecall' = Entered("Install", version, EntryIdle.cwd, <<"http get">>)
    /\ UNCHANGED <<pinFiles, cfgFile>>

\* UseWithProgress up to ToolchainExists.
EnterUse(version, cwd) ==
    /\ ecall' = Entered("Use", version, cwd, <<"stat binary">>)
    /\ UNCHANGED <<pinFiles, cfgFile>>

\* DeleteInstalledWithProgress up to Current.
EnterDelete(cwd, version) ==
    /\ ecall' = Entered("DeleteInstalled", version, cwd, ResolveAccesses(cwd, pinFiles))
    /\ UNCHANGED <<pinFiles, cfgFile>>

InitEntry ==
    /\ pinFiles \in [Dirs -> InitPinStates]
    /\ cfgFile \in InitCfgStates
    /\ ecall = EntryIdle

\* One call is followed from each state of the files: none of these steps
\* changes a file, so a later call finds what the first one found.
NoCallYet == ecall.pc = "idle"

NextEntry ==
    \/ \E cwd \in Cwds, tool \in Tools :
          NoCallYet /\ ResolveBinaryForTool(cwd, tool) /\ UNCHANGED otherThanEntry
    \/ \E v \in EntryVersions :
          NoCallYet /\ EnterInstall(v) /\ UNCHANGED otherThanEntry
    \/ \E v \in EntryVersions, cwd \in Cwds :
          NoCallYet /\ EnterUse(v, cwd) /\ UNCHANGED otherThanEntry
    \/ \E v \in EntryVersions, cwd \in Cwds :
          NoCallYet /\ EnterDelete(cwd, v) /\ UNCHANGED otherThanEntry

\* The call was given an input the operation cannot accept.
InputInvalid(call) ==
    \/ call.op = "ResolveBinaryForTool" /\ call.tool \notin {"go", "gofmt", "golangci-lint"}
    \/ /\ call.op \in {"Install", "Use", "DeleteInstalled"}
       /\ ~NormalizeGoVersion(call.version).ok

InputError(call) ==
    IF call.op = "ResolveBinaryForTool" THEN ErrUnsupportedTool ELSE ErrInvalidVersion

\* C22: a call with an unsupported tool name (ResolveBinaryForTool) or a
\* malformed version string (Install, Use, DeleteInstalled) returns the input
\* error, and has made no access to the file system or the network.
C22_InputErrorsBeforeIO ==
    InputInvalid(ecall) =>
        /\ ecall.pc = "done"
        /\ ecall.err = InputError(ecall)
        /\ ecall.io = <<>>

(***************************************************************************)
(* Functions of versions                                                   *)
(*                                                                         *)
(* The functions that take no state of the program: a call is made with an *)
(* argument drawn from a bounded set, and the function is applied to it.  *)
(***************************************************************************)
\* A call that was made and has not returned.
Pending(fn, arg) == [fn |-> fn, arg |-> arg, done |-> FALSE, out |-> <<>>]

Called(fn) == fcall.fn = fn /\ ~fcall.done

Applied(fn) == fcall.fn = fn /\ fcall.done

\* The entries the toolchains directory may hold: the directories of installed
\* versions, the temporary directory of an extraction, and for each name a
\* plain file or a directory without bin/go in its place.
ListNames == SVersions \cup {S_tmpToolchain}
ToolchainsDirs == [ListNames -> {"absent", "file", "partial", "installed"}]

\* Service.ListLocal
ListLocal ==
    /\ Called("ListInstalledVersions")
    /\ fcall' = [fcall EXCEPT !.done = TRUE, !.out = ListInstalledVersions(fcall.arg)]

\* The versions the functions are applied to: around the ends of every rule of
\* the table, below the first rule, and in the gaps between the rules.
Majors == {0, 1, 2}
Minors == {0, 20, 21, 22, 23, 24, 25, 26}
Patches == {0, 99, 100}
Triples == Majors \X Minors \X Patches

\* fmt.Sprintf("%d.%d.%d") and the forms a caller may write the version in.
Dotted(t) == Itoa(t[1]) \o <<".">> \o Itoa(t[2]) \o <<".">> \o Itoa(t[3])
GoForm(t) == <<"g", "o">> \o Dotted(t)
ShortForm(t) == Itoa(t[1]) \o <<".">> \o Itoa(t[2])
Forms(t) == {GoForm(t), Dotted(t)} \cup (IF t[3] = 0 THEN {ShortForm(t)} ELSE {})

\* Strings that are not versions.
NotVersions == {<<>>, S_latest, S_rc, <<"g", "o">>, <<"g", "o", "1">>, S_tmpToolchain}

GoVersionInputs == UNION {Forms(t) : t \in Triples} \cup NotVersions

\* a call of tools.RecommendedGolangCILint
Recommend ==
    /\ Called("RecommendedGolangCILint")
    /\ fcall' = [fcall EXCEPT !.done = TRUE, !.out = RecommendedGolangCILint(fcall.arg)]

\* The strings NormalizeGoVersion is given: every string of up to MaxLen
\* characters of digits, dots, signs, a blank and a letter, as it is and after
\* "go", and the strings of the package's tests.
MaxLen == 4
Alphabet == {"0", "1", "9", ".", "+", "-", " ", "r"}
Bodies == UNION {[1..n -> Alphabet] : n \in 0..MaxLen}
S_125 == <<"1", ".", "2", "5">>
S_go1242 == <<"g", "o", "1", ".", "2", "4", ".", "2">>
S_1242 == <<"1", ".", "2", "4", ".", "2">>
S_1111 == <<"1", ".", "1", ".", "1", ".", "1">>
TestedInputs == {S_go1242, S_1242, S_125, S_rc, S_latest, S_1111}
NormalizeInputs ==
    Bodies \cup {<<"g", "o">> \o b : b \in Bodies} \cup TestedInputs

\* The toolchain versions the companion tool is ensured for: one in the range
\* of each rule.
S_go1260 == <<"g", "o", "1", ".", "2", "6", ".", "0">>
EnsureVersions == {S_go190, S_go1210, S_go1230, S_go1250, S_go1260}

\* a call of tools.EnsureForGoVersionWithOptions with the binary in place: the
\* version returned, and the mapping the config then holds for goVersion.
Ensure ==
    /\ Called("EnsureForGoVersionWithOptions")
    /\ LET lintVersion == Ensured(fcall.arg.stored, RecommendedGolangCILint(fcall.arg.goVersion))
       IN  fcall' = [fcall EXCEPT !.done = TRUE,
                                  !.out = [lintVersion |-> lintVersion, mapping |-> lintVersion]]

\* a call of versionutil.NormalizeGoVersion
Normalize ==
    /\ Called("NormalizeGoVersion")
    /\ fcall' = [fcall EXCEPT !.done = TRUE, !.out = NormalizeGoVersion(fcall.arg)]

InitFunctions ==
    \/ \E tc \in ToolchainsDirs : fcall = Pending("ListInstalledVersions", tc)
    \/ \E v \in GoVersionInputs : fcall = Pending("RecommendedGolangCILint", v)
    \/ \E v \in NormalizeInputs : fcall = Pending("NormalizeGoVersion", v)
    \/ \E g \in EnsureVersions, stored \in StoredVersions :
          fcall = Pending("EnsureForGoVersionWithOptions", [goVersion |-> g, stored |-> stored])

NextFunctions ==
    \/ ListLocal /\ UNCHANGED otherThanFunctions
    \/ Recommend /\ UNCHANGED otherThanFunctions
    \/ Normalize /\ UNCHANGED otherThanFunctions
    \/ Ensure /\ UNCHANGED otherThanFunctions

TripleLeq(a, b) ==
    \/ a[1] < b[1]
    \/ a[1] = b[1] /\ a[2] < b[2]
    \/ a[1] = b[1] /\ a[2] = b[2] /\ a[3] <= b[3]

TripleOf(v) == LET p == ParseGoVersion(v) IN <<p.major, p.minor, p.patch>>

\* The ends of the rules, as numbers; an empty MaxGo is an open end.
RuleRanges ==
    [i \in 1..Len(compatibilityRules) |->
        [min |-> TripleOf(compatibilityRules[i].MinGo),
         open |-> compatibilityRules[i].MaxGo = <<>>,
         max |-> IF compatibilityRules[i].MaxGo = <<>> THEN <<0, 0, 0>>
                 ELSE TripleOf(compatibilityRules[i].MaxGo)]]

RuleContains(i, t) ==
    /\ TripleLeq(RuleRanges[i].min, t)
    /\ RuleRanges[i].open \/ TripleLeq(t, RuleRanges[i].max)

\* C25: RecommendedGolangCILint returns the companion version of the first
\* rule of the table whose range from MinGo to MaxGo contains the version it
\* was given, in whatever form the version was written; given a string that
\* does not normalize it returns the companion version of the last rule; and
\* it always returns the companion version of some rule.
C25_RecommendedIsFirstRuleInRange ==
    Applied("RecommendedGolangCILint") =>
        /\ \E i \in 1..Len(compatibilityRules) :
              fcall.out = compatibilityRules[i].LintVersion
        /\ fcall.arg \in NotVersions =>
              fcall.out = compatibilityRules[Len(compatibilityRules)].LintVersion
        /\ \A t \in Triples, i \in 1..Len(compatibilityRules) :
              (/\ fcall.arg \in Forms(t)
               /\ RuleContains(i, t)
               /\ \A j \in 1..(i - 1) : ~RuleContains(j, t))
                  => fcall.out = compatibilityRules[i].LintVersion

\* The upper end of the second rule, written without the "go" prefix.
C25_Witness ==
    /\ Applied("RecommendedGolangCILint")
    /\ fcall.arg = Dotted(<<1, 22, 99>>)
    /\ fcall.out = L_v1572

\* The dot-separated components of a string, once the blanks around it and
\* the "go" before it are removed.
Components(input) == Split(TrimPrefix(TrimSpace(input), <<"g", "o">>), ".")

\* C26: when NormalizeGoVersion accepts x, it accepts its own result and
\* returns it unchanged; and for an x of two components the result's third
\* component is 0.
C26_NormalizeIdempotent ==
    (Applied("NormalizeGoVersion") /\ fcall.out.ok) =>
        /\ NormalizeGoVersion(fcall.out.v) = fcall.out
        /\ Len(Components(fcall.arg)) = 2 =>
              /\ Len(Components(fcall.out.v)) = 3
              /\ Components(fcall.out.v)[3] = <<"0">>
              /\ Atoi(Components(fcall.out.v)[1]).n = Atoi(Components(fcall.arg)[1]).n
              /\ Atoi(Components(fcall.out.v)[2]).n = Atoi(Components(fcall.arg)[2]).n

\* "1.25" gives "go1.25.0".
C26_Witness ==
    /\ Applied("NormalizeGoVersion")
    /\ fcall.arg = S_125
    /\ fcall.out = [ok |-> TRUE, v |-> S_go1250]

\* A component is a plain non-negative decimal integer: digits and no more.
PlainDecimal(part) == part # <<>> /\ \A i \in 1..Len(part) : IsDigit(part[i])

Malformed(input) ==
    LET parts == Components(input)
    IN  \/ Len(parts) < 2
        \/ Len(parts) > 3
        \/ \E i \in 1..Len(parts) : ~PlainDecimal(parts[i])

\* C27: NormalizeGoVersion fails for every string one of whose components is
\* not a plain non-negative decimal integer (a pre-release suffix, a word, a
\* sign), and for every string of fewer than 2 or more than 3 components.
C27_MalformedRejected ==
    (Applied("NormalizeGoVersion") /\ Malformed(fcall.arg)) => ~fcall.out.ok

\* The numbers of the dotted versions a config may hold; the strings that are
\* not dotted versions have none.
DottedNumbers ==
    (L_v1542 :> <<1, 54, 2>>) @@ (L_v1572 :> <<1, 57, 2>>) @@ (L_v1648 :> <<1, 64, 8>>)
    @@ (L_v290 :> <<2, 9, 0>>) @@ (L_v1610 :> <<1, 61, 0>>) @@ (L_v999 :> <<9, 9, 9>>)
    @@ (L_29 :> <<2, 9>>) @@ (L_v2 :> <<2>>) @@ (L_v2901 :> <<2, 9, 0, 1>>)

NumberAt(nums, i) == IF i <= Len(nums) THEN nums[i] ELSE 0

\* Dotted version a is lower than b: at the first place they differ, with the
\* places a version does not have read as 0.
DottedLower(a, b) ==
    \E i \in 1..4 :
        /\ NumberAt(a, i) < NumberAt(b, i)
        /\ \A j \in 1..(i - 1) : NumberAt(a, j) = NumberAt(b, j)

EntryChars ==
    ("go1.25.0" :> S_go1250) @@ (".tmp-toolchain-1" :> S_tmpToolchain) @@ ("b" :> <<"b">>)

\* os.ReadDir(paths.ToolchainsDir) with, for each entry, DirEntry.IsDir and
\* os.Stat of bin/go below it (Stat follows symbolic links).
ReadToolchainsDir(fs) ==
    LET names == {Last(p) : p \in {q \in DOMAIN fs : q # <<>> /\ Front(q) = ToolchainsDir}}
        at(n) == Append(ToolchainsDir, n)
    IN  [c \in {EntryChars[n] : n \in DOMAIN EntryChars \cup names} |->
            LET n == CHOOSE k \in DOMAIN EntryChars \cup names : EntryChars[k] = c
            IN  IF n \notin names THEN "absent"
                ELSE IF fs[at(n)].kind # "dir" THEN "file"
                ELSE IF Phys(fs, <<>>, at(n) \o <<"bin", "go">>, MaxLinkHops).ok
                THEN "installed"
                ELSE "partial"]

\* C29: while the extraction of a version has not completed (it is under
\* way, or it has failed), ToolchainExists is false for the version and
\* ListInstalledVersions lists neither the version nor the temporary
\* extraction directory.
C29_UnfinishedNotInstalled ==
    xpc # "done" =>
        LET tc == ReadToolchainsDir(xfs)
            listed == ListInstalledVersions(tc)
        IN  /\ ~ToolchainExists(tc, S_go1250)
            /\ \A i \in 1..Len(listed) : listed[i] \notin {S_go1250, S_tmpToolchain}

\* C30: when the archive extracted without error and holds no bin/go, the
\* call returns an error and no directory of the version is left at the final
\* toolchain path.
C30_NoBinGoLeavesNoToolchain ==
    (ipc = "idle" /\ icall.extractStarted /\ icall.handed.tree = "nobin") =>
        /\ icall.result = "error"
        /\ toolchains[icall.version] = "absent"

(***************************************************************************)
(* The download of an archive into the cache: downloadToFile, the same in  *)
(* the install package and in tools/golangci.go.  The file at the          *)
(* destination path and the temporary file created beside it are followed  *)
(* statement by statement; the response of the server and the failure of   *)
(* each system call are inputs.                                            *)
(***************************************************************************)
MaxBody == 2
Chunks == {"a", "b"}

\* What the server may send as a body: up to MaxBody chunks.
Bodies_Download == UNION {[1..n -> Chunks] : n \in 0..MaxBody}

\* http.StatusOK
StatusOK == 200
Statuses == {StatusOK, 404, 503}

NoFile == [exists |-> FALSE, data |-> <<>>]
FileOf(data) == [exists |-> TRUE, data |-> data]

\* What may lie at the destination before the call: nothing, or an archive.
StaleArchive == <<"o">>
Destinations == {NoFile, FileOf(StaleArchive), FileOf(<<"a">>)}

NoResponse == [status |-> 0, body |-> <<>>]

DownloadStart(dest) ==
    [pc |-> "mkdir", err |-> NoErr, atStart |-> dest, resp |-> NoResponse, copied |-> 0]

\* return fmt.Errorf(...)
DownloadFailed(call, e) == [call EXCEPT !.pc = "done", !.err = e]

\* The closure as a bug would have it: the file is closed and left behind.
cleanup_CloseOnly(files) == files

\* cleanup: tmpFile.Close, os.Remove(tmpPath)
cleanup(files) == [files EXCEPT !.tmp = NoFile]

\* os.MkdirAll(filepath.Dir(destination))
DownloadMkdir ==
    /\ dcall.pc = "mkdir"
    /\ \E ok \in BOOLEAN :
          dcall' = IF ok THEN [dcall EXCEPT !.pc = "createTemp"]
                   ELSE DownloadFailed(dcall, "create destination parent")
    /\ UNCHANGED dlFiles

\* os.CreateTemp(filepath.Dir(destination), ".download-*"): a new, empty file
DownloadCreateTemp ==
    /\ dcall.pc = "createTemp"
    /\ \E ok \in BOOLEAN :
          IF ok
          THEN /\ dlFiles' = [dlFiles EXCEPT !.tmp = FileOf(<<>>)]
               /\ dcall' = [dcall EXCEPT !.pc = "request"]
          ELSE /\ dcall' = DownloadFailed(dcall, "create temporary file")
               /\ UNCHANGED dlFiles

\* http.NewRequestWithContext
DownloadNewRequest ==
    /\ dcall.pc = "request"
    /\ \E ok \in BOOLEAN :
          IF ok
          THEN dcall' = [dcall EXCEPT !.pc = "do"] /\ UNCHANGED dlFiles
          ELSE /\ dlFiles' = cleanup(dlFiles)
               /\ dcall' = DownloadFailed(dcall, "create request")

\* client.Do(req): a transport error, or the response's status and body
DownloadDo ==
    /\ dcall.pc = "do"
    /\ \/ /\ dlFiles' = cleanup(dlFiles)
          /\ dcall' = DownloadFailed(dcall, "perform request")
       \/ \E status \in Statuses, body \in Bodies_Download :
             /\ dcall' = [dcall EXCEPT !.pc = "status",
                                       !.resp = [status |-> status, body |-> body]]
             /\ UNCHANGED dlFiles

\* resp.StatusCode != http.StatusOK
DownloadCheckStatus ==
    /\ dcall.pc = "status"
    /\ IF dcall.resp.status # StatusOK
       THEN /\ dlFiles' = cleanup(dlFiles)
            /\ dcall' = DownloadFailed(dcall, "unexpected status code")
       ELSE /\ dcall' = [dcall EXCEPT !.pc = "copy"]
            /\ UNCHANGED dlFiles

\* io.Copy(tmpFile, resp.Body): the next chunk is read and written, the body
\* ends, or a read or a write fails with part of the body in the file.
DownloadCopy ==
    /\ dcall.pc = "copy"
    /\ \/ /\ dcall.copied < Len(dcall.resp.body)
          /\ dlFiles' = [dlFiles EXCEPT
                           !.tmp = FileOf(@.data \o <<dcall.resp.body[dcall.copied + 1]>>)]
          /\ dcall' = [dcall EXCEPT !.copied = @ + 1]
       \/ /\ dcall.copied = Len(dcall.resp.body)
          /\ dcall' = [dcall EXCEPT !.pc = "close"]
          /\ UNCHANGED dlFiles
       \/ /\ dlFiles' = cleanup(dlFiles)
          /\ dcall' = DownloadFailed(dcall, "write response body")

\* tmpFile.Close()
DownloadClose ==
    /\ dcall.pc = "close"
    /\ \E ok \in BOOLEAN :
          IF ok
          THEN dcall' = [dcall EXCEPT !.pc = "rename"] /\ UNCHANGED dlFiles
          ELSE /\ dlFiles' = cleanup(dlFiles)
               /\ dcall' = DownloadFailed(dcall, "close temporary file")

\* os.Rename(tmpPath, destination): the temporary file takes the place of
\* whatever was at the destination, or nothing is moved.
DownloadRename ==
    /\ dcall.pc = "rename"
    /\ \E ok \in BOOLEAN :
          IF ok
          THEN /\ dlFiles' = [dest |-> dlFiles.tmp, tmp |-> NoFile]
               /\ dcall' = [dcall EXCEPT !.pc = "done"]
          ELSE /\ dlFiles' = cleanup(dlFiles)
               /\ dcall' = DownloadFailed(dcall, "finalize download")

InitDownload ==
    \E dest \in Destinations :
       /\ dlFiles = [dest |-> dest, tmp |-> NoFile]
       /\ dcall = DownloadStart(dest)

NextDownload ==
    \/ DownloadMkdir /\ UNCHANGED otherThanDownload
    \/ DownloadCreateTemp /\ UNCHANGED otherThanDownload
    \/ DownloadNewRequest /\ UNCHANGED otherThanDownload
    \/ DownloadDo /\ UNCHANGED otherThanDownload
    \/ DownloadCheckStatus /\ UNCHANGED otherThanDownload
    \/ DownloadCopy /\ UNCHANGED otherThanDownload
    \/ DownloadClose /\ UNCHANGED otherThanDownload
    \/ DownloadRename /\ UNCHANGED otherThanDownload

(***************************************************************************)
(* C31: downloadToFile changes the file at the destination path only by    *)
(* renaming a temporary file that holds the whole body of a 200 response;  *)
(* when it has returned an error (transport, status, copy, close, rename)  *)
(* the temporary file is gone and the destination is as it was before the  *)
(* call.                                                                   *)
(***************************************************************************)
C31_DownloadPromotesWholeFileOnly ==
    /\ []((dcall.pc = "done" /\ dcall.err # NoErr) =>
            /\ dlFiles.tmp = NoFile
            /\ dlFiles.dest = dcall.atStart)
    /\ [](dcall.pc # "done" => dlFiles.dest = dcall.atStart)
    /\ [][dlFiles'.dest # dlFiles.dest =>
            /\ dcall.pc = "rename"
            /\ dcall.resp.status = StatusOK
            /\ dlFiles.tmp = FileOf(dcall.resp.body)
            /\ dlFiles'.dest = dlFiles.tmp
            /\ dlFiles'.tmp = NoFile]_vars

\* The copy failed with one chunk of two in the temporary file, over a stale
\* archive at the destination.
C31_Witness ==
    /\ dcall.pc = "done" /\ dcall.err = "write response body"
    /\ dcall.copied = 1 /\ Len(dcall.resp.body) = 2
    /\ dcall.atStart = FileOf(StaleArchive)
    /\ dlFiles.dest = FileOf(StaleArchive)

(***************************************************************************)
(* The state a DeleteInstalled leaves behind                               *)
(***************************************************************************)
\* What ResolveActiveVersion(cwd) returns in the current state of the files.
ActiveNow == Current(scall.cwd)

(***************************************************************************)
(* C32: after a DeleteInstalled(cwd, v) that returned without error,       *)
(* ResolveActiveVersion(cwd) returns ErrNoActiveVersion or a version whose *)
(* toolchain is installed, and never the version that was deleted.         *)
(***************************************************************************)
C32_ActiveAfterDeleteIsInstalled ==
    Succeeded("delete") =>
        \/ ActiveNow.err = ErrNoActiveVersion
        \/ /\ ActiveNow.err = NoErr
           /\ ActiveNow.Version # scall.version
           /\ toolchains[ActiveNow.Version] = "installed"

(***************************************************************************)
(* C33: when a DeleteInstalled(cwd, v) has returned without error, the     *)
(* ActiveAfter of its result is what ResolveActiveVersion(cwd) returns in  *)
(* the state it leaves: the same version, scope and source, and the empty  *)
(* value exactly when the resolution gives ErrNoActiveVersion.             *)
(***************************************************************************)
C33_ActiveAfterIsResolution ==
    Succeeded("delete") =>
        /\ ActiveNow.err = NoErr => scall.result.ActiveAfter = ActiveNow
        /\ scall.result.ActiveAfter = NoActive(NoErr) <=> ActiveNow.err = ErrNoActiveVersion

(***************************************************************************)
(* The TUI's workflows in flight                                           *)
(***************************************************************************)
\* The workflows whose goroutine is inside its service call.
Running == {w \in Workflows : workers[w].pc = "run"}

(***************************************************************************)
(* C34: at most one background workflow of the TUI is in flight at any     *)
(* time: while the goroutine of a workflow is running its service call,    *)
(* busy is true (the keys that start a workflow are ignored) and no other  *)
(* workflow is running, whatever the order of the messages.                *)
(***************************************************************************)
C34_OneWorkflowInFlight ==
    /\ Cardinality(Running) <= 1
    /\ Running # {} => m.busy

(***************************************************************************)
(* C35: a step of a Use changes a pin file or the config only while the    *)
(* toolchain of the version is installed, and a Use whose install of the   *)
(* absent toolchain failed has returned with every pin file and the config *)
(* as they were before the call.                                           *)
(***************************************************************************)
C35_PinWrittenOnlyWhenInstalled ==
    /\ []((CallReturned("use") /\ scall.err = "install") =>
            /\ pinFiles = scall.before.pinFiles
            /\ cfgFile = scall.before.cfgFile)
    /\ [][(scall'.op = "use" /\ (pinFiles' # pinFiles \/ cfgFile' # cfgFile)) =>
            /\ toolchains[scall.version] = "installed"
            /\ toolchains'[scall.version] = "installed"]_vars

\* The install of the absent toolchain failed: the pin of cwd, which names
\* another version, and the global version are untouched.
C35_Witness ==
    /\ CallReturned("use") /\ scall.err = "install"
    /\ scall.before.toolchains[scall.version] = "absent"
    /\ toolchains[scall.version] = "absent"
    /\ scall.scope = ScopeLocal
    /\ pinFiles[scall.cwd] \notin {PinAbsent, PinFile(scall.version \o <<"\n">>)}
    /\ cfgFile.kind = "doc" /\ cfgFile.GlobalVersion # <<>>

(***************************************************************************)
(* C36: when the pin file nearest to cwd (in cwd or the closest ancestor   *)
(* that has one) cannot be read or holds no valid version,                 *)
(* ResolveActiveVersion returns an error other than ErrNoActiveVersion: no *)
(* version of a farther pin file and no global version is returned.        *)
(***************************************************************************)
\* The nearest directory from cwd upwards that has a pin file has a bad one.
NearestPinIsBad(cwd) ==
    /\ PinnedAbove(cwd) # {}
    /\ ~PinHoldsVersion(Closest(PinnedAbove(cwd)))

C36_BadNearestPinIsAnError ==
    (res.op = "resolve" /\ NearestPinIsBad(res.cwd)) =>
        /\ res.out.err \notin {NoErr, ErrNoActiveVersion}
        /\ res.out.Version = <<>>

\* The pin file of cwd holds no version, its parent's does and so does the
\* config: the resolution is an error.
C36_Witness ==
    /\ res.op = "resolve" /\ res.cwd.dir > 0
    /\ pinFiles[res.cwd.dir] = PinFile(S_rc)
    /\ PinHoldsVersion(0)
    /\ cfgFile.kind = "doc" /\ cfgFile.GlobalVersion = S_go1240
    /\ res.out.err = ErrOther

(***************************************************************************)
(* C37: RecommendedGolangCILint returns the companion version of the last  *)
(* rule only for a version at or above that rule's MinGo or for a string   *)
(* that does not normalize; a version below it gets the companion version  *)
(* of an earlier rule, so the recommendation for a version is never older  *)
(* than the recommendation for a lower version.                            *)
(***************************************************************************)
\* What the function returns for each version, written as goX.Y.Z.
RecommendedFor == [t \in Triples |-> RecommendedGolangCILint(GoForm(t))]

LastMinGo == TripleOf(compatibilityRules[Len(compatibilityRules)].MinGo)

C37_LastRuleOnlyAboveItsMinimum ==
    Applied("RecommendedGolangCILint") =>
        \A t \in Triples :
            fcall.arg \in Forms(t) =>
                /\ fcall.out = LastRule => TripleLeq(LastMinGo, t)
                /\ \A u \in Triples :
                      TripleLeq(u, t) =>
                          NotBelow(LintVersionOrder[fcall.out][RecommendedFor[u]])

(***************************************************************************)
(* The TUI's list, search filter and cursor: model.Update for versionsMsg, *)
(* the done messages and WindowSizeMsg, handleKey and handleSearchKey.     *)
(* The fields that only feed the view (status, lastError, scope, spinner)  *)
(* are left out; lastError enters through pageSize, whose reserved lines   *)
(* are 9 or 10 with it, and both are tried.                                *)
(***************************************************************************)
MaxQuery == 2
MaxPending == 1

V_a == <<"a">>
V_b == <<"b">>
V_ab == <<"a", "b">>

\* What ListLocal or ListRemote may return.
VersionLists == {<<>>, <<V_ab, V_a>>, <<V_ab, V_a, V_b>>}

\* The runes typed into the search, and the heights of the terminal.
QueryRunes == {"a", "B", " "}
Heights == {0, 15}
Reserved == {9, 10}

\* The lines pageSize may reserve: without a height it reserves none.
ReservedNow == IF ui.height <= 0 THEN {9} ELSE Reserved

NoSelection == <<>>
OutOfRange == <<"!">>

\* strings.Contains
Contains(str, sub) ==
    \E i \in 0..(Len(str) - Len(sub)) : SubSeq(str, i + 1, i + Len(sub)) = sub

unfilteredList(u) == IF u.mode = "remote" THEN u.remoteVersions ELSE u.localVersions

Matches(version, query) == Contains(ToLower(version), ToLower(TrimSpace(query)))

\* model.currentList: the list of the mode, filtered by the search query
currentList(u) ==
    IF TrimSpace(u.searchQuery) = <<>> THEN unfilteredList(u)
    ELSE SelectSeq(unfilteredList(u), LAMBDA version : Matches(version, u.searchQuery))

\* model.pageSize
pageSize(u, reserved) ==
    IF u.height <= 0 THEN 15
    ELSE IF u.height - reserved < 5 THEN 5
    ELSE u.height - reserved

Clamp(x, lo, hi) == IF x < lo THEN lo ELSE IF x > hi THEN hi ELSE x

\* The list offset ensureCursorVisible leaves for a cursor in a list of n.
OffsetFor(offset, cursor, n, size) ==
    LET o1 == IF offset > cursor THEN cursor ELSE offset
        o2 == IF cursor >= o1 + size THEN cursor - size + 1 ELSE o1
        maxOffset == IF n - size < 0 THEN 0 ELSE n - size
        o3 == IF o2 > maxOffset THEN maxOffset ELSE o2
    IN  IF o3 < 0 THEN 0 ELSE o3

\* ensureCursorVisible as a bug would have it: the offset follows the cursor,
\* the cursor is not brought back into the list.
ensureCursorVisible_OffsetOnly(u, reserved) ==
    LET n == Len(currentList(u))
    IN  IF n = 0 THEN [u EXCEPT !.listOffset = 0]
        ELSE [u EXCEPT !.listOffset = OffsetFor(u.listOffset, u.cursor, n,
                                                pageSize(u, reserved))]

\* model.ensureCursorVisible
ensureCursorVisible(u, reserved) ==
    LET n == Len(currentList(u))
        cursor == Clamp(u.cursor, 0, n - 1)
    IN  IF n = 0 THEN [u EXCEPT !.listOffset = 0]
        ELSE [u EXCEPT !.cursor = cursor,
                       !.listOffset = OffsetFor(u.listOffset, cursor, n,
                                                pageSize(u, reserved))]

\* model.clampCursor
clampCursor(u, reserved) ==
    IF Len(currentList(u)) = 0 THEN [u EXCEPT !.cursor = 0, !.listOffset = 0]
    ELSE ensureCursorVisible(
            [u EXCEPT !.cursor = Clamp(@, 0, Len(currentList(u)) - 1)], reserved)

\* m.cursor = 0; m.listOffset = 0
Rewound(u) == [u EXCEPT !.cursor = 0, !.listOffset = 0]

\* handleKey reaches its switch: not busy, and handleSearchKey did not take
\* the key.  Keys that are runes are taken by an active search.
Navigates == ~ui.busy
Commands == ~ui.busy /\ ~ui.searchActive

\* "up", "down", "home", "end"
PressMove(key) ==
    /\ Navigates
    /\ \E reserved \in ReservedNow :
          LET n == Len(currentList(ui))
              moved == CASE key = "up" /\ n > 0 /\ ui.cursor > 0 ->
                              ensureCursorVisible([ui EXCEPT !.cursor = @ - 1], reserved)
                         [] key = "down" /\ n > 0 /\ ui.cursor < n - 1 ->
                              ensureCursorVisible([ui EXCEPT !.cursor = @ + 1], reserved)
                         [] key = "home" /\ n > 0 ->
                              ensureCursorVisible([ui EXCEPT !.cursor = 0], reserved)
                         [] key = "end" /\ n > 0 ->
                              ensureCursorVisible([ui EXCEPT !.cursor = n - 1], reserved)
                         [] OTHER -> ui
          IN  ui' = moved
    /\ UNCHANGED cmds

\* "pgup", "pgdown"
PressPage(key) ==
    /\ Navigates
    /\ \E reserved \in ReservedNow :
          LET size == pageSize(ui, reserved)
          IN  ui' = IF Len(currentList(ui)) = 0 THEN ui
                    ELSE IF key = "pgup"
                    THEN clampCursor([ui EXCEPT !.cursor = @ - size], reserved)
                    ELSE clampCursor([ui EXCEPT !.cursor = @ + size], reserved)
    /\ UNCHANGED cmds

\* "tab": the other list, from its top; the first visit of the remote list
\* loads it.
PressTab ==
    /\ Navigates
    /\ IF ui.mode = "local" /\ ~ui.hasRemoteHit
       THEN /\ cmds.remote < MaxPending
            /\ ui' = [Rewound(ui) EXCEPT !.mode = "remote", !.busy = TRUE]
            /\ cmds' = [cmds EXCEPT !.remote = @ + 1]
       ELSE /\ \E reserved \in ReservedNow :
                  ui' = ensureCursorVisible(
                           [Rewound(ui) EXCEPT
                               !.mode = IF ui.mode = "local" THEN "remote" ELSE "local"],
                           reserved)
            /\ UNCHANGED cmds

\* "r": the list of the mode is loaded again.
PressRefresh ==
    /\ Commands
    /\ cmds[ui.mode] < MaxPending
    /\ ui' = [ui EXCEPT !.busy = TRUE]
    /\ cmds' = [cmds EXCEPT ![ui.mode] = @ + 1]

\* current[m.cursor], or the panic of an index outside the list
Selected(u) ==
    IF u.cursor >= 0 /\ u.cursor < Len(currentList(u))
    THEN currentList(u)[u.cursor + 1]
    ELSE OutOfRange

\* The workflows started whose done message has not arrived.
InFlight == cmds.work["install"] + cmds.work["use"] + cmds.work["delete"]

\* "x" (local mode), "i" (remote mode), "enter": the workflow for the version
\* under the cursor; nothing with an empty list.
PressStart(kind) ==
    /\ Commands
    /\ IF \/ kind = "delete" /\ ui.mode # "local"
          \/ kind = "install" /\ ui.mode # "remote"
          \/ Len(currentList(ui)) = 0
       THEN UNCHANGED <<ui, cmds>>
       ELSE /\ InFlight < MaxPending
            /\ ui' = [ui EXCEPT !.busy = TRUE, !.selected = Selected(ui)]
            /\ cmds' = [cmds EXCEPT !.work[kind] = @ + 1]

\* "/": the search opens.
PressSlash ==
    /\ Commands
    /\ ui' = [ui EXCEPT !.searchActive = TRUE]
    /\ UNCHANGED cmds

\* "esc": the search is closed and cleared; outside a search, a query is cleared.
PressEsc ==
    /\ ~ui.busy
    /\ \E reserved \in ReservedNow :
          ui' = IF ui.searchActive
                THEN ensureCursorVisible(
                        [Rewound(ui) EXCEPT !.searchActive = FALSE, !.searchQuery = <<>>],
                        reserved)
                ELSE IF ui.searchQuery = <<>> THEN ui
                ELSE ensureCursorVisible([Rewound(ui) EXCEPT !.searchQuery = <<>>], reserved)
    /\ UNCHANGED cmds

\* "enter" in a search: the search closes, the query stays.
PressSearchEnter ==
    /\ ~ui.busy /\ ui.searchActive
    /\ ui' = [ui EXCEPT !.searchActive = FALSE]
    /\ UNCHANGED cmds

\* "backspace" in a search: the last rune goes; on an empty query the search closes.
PressBackspace ==
    /\ ~ui.busy /\ ui.searchActive
    /\ \E reserved \in ReservedNow :
          ui' = IF ui.searchQuery = <<>> THEN [ui EXCEPT !.searchActive = FALSE]
                ELSE ensureCursorVisible(
                        [Rewound(ui) EXCEPT
                            !.searchQuery = SubSeq(@, 1, Len(@) - 1)],
                        reserved)
    /\ UNCHANGED cmds

\* "ctrl+u" in a search: the query is emptied.
PressCtrlU ==
    /\ ~ui.busy /\ ui.searchActive
    /\ \E reserved \in ReservedNow :
          ui' = ensureCursorVisible([Rewound(ui) EXCEPT !.searchQuery = <<>>], reserved)
    /\ UNCHANGED cmds

\* a rune in a search: appended to the query.
PressRune(rune) ==
    /\ ~ui.busy /\ ui.searchActive
    /\ Len(ui.searchQuery) < MaxQuery
    /\ \E reserved \in ReservedNow :
          ui' = ensureCursorVisible(
                   [Rewound(ui) EXCEPT !.searchQuery = Append(@, rune)], reserved)
    /\ UNCHANGED cmds

\* The cursor after the first lines of a list's arrival: brought below the
\* length of the list that arrived, to 0 for an empty one.
AfterArrival(u, versions) ==
    IF Len(versions) = 0 THEN Rewound(u)
    ELSE IF u.cursor >= Len(versions) THEN [u EXCEPT !.cursor = Len(versions) - 1]
    ELSE u

\* Update, case versionsMsg
GotVersions(mode, versions, err) ==
    /\ cmds[mode] > 0
    /\ cmds' = [cmds EXCEPT ![mode] = @ - 1]
    /\ \E reserved \in ReservedNow :
          LET idle == [ui EXCEPT !.busy = FALSE]
          IN  ui' = IF err THEN idle
                    ELSE IF mode = "local"
                    THEN ensureCursorVisible(
                            AfterArrival([idle EXCEPT !.localVersions = versions], versions),
                            reserved)
                    ELSE LET got == [idle EXCEPT !.remoteVersions = versions,
                                                !.hasRemoteHit = TRUE]
                         IN  ensureCursorVisible(
                                IF ui.mode = "remote" THEN AfterArrival(got, versions)
                                ELSE got,
                                reserved)

\* Update, cases installDoneMsg, useDoneMsg, deleteDoneMsg
GotDone(kind, ok) ==
    /\ cmds.work[kind] > 0
    /\ (ok /\ kind # "use") => cmds.local < MaxPending
    /\ cmds' = [cmds EXCEPT !.work[kind] = @ - 1,
                            !.local = IF ok /\ kind # "use" THEN @ + 1 ELSE @]
    /\ ui' = [ui EXCEPT !.busy = FALSE, !.selected = NoSelection,
                        !.cursor = IF ok /\ kind = "install" /\ ui.mode = "remote"
                                   THEN 0 ELSE @]

\* Update, case tea.WindowSizeMsg
GotWindowSize(height) ==
    /\ height # ui.height
    /\ \E reserved \in Reserved :
          ui' = ensureCursorVisible([ui EXCEPT !.height = height], reserved)
    /\ UNCHANGED cmds

\* newModel and Init: local mode, busy, the local list on its way.
InitCursor ==
    /\ ui = [mode |-> "local", localVersions |-> <<>>, remoteVersions |-> <<>>,
             hasRemoteHit |-> FALSE, busy |-> TRUE, searchActive |-> FALSE,
             searchQuery |-> <<>>, cursor |-> 0, listOffset |-> 0, height |-> 0,
             selected |-> NoSelection]
    /\ cmds = [local |-> 1, remote |-> 0,
               work |-> [kind \in Kinds |-> 0]]

NextCursor ==
    \/ \E key \in {"up", "down", "home", "end"} : PressMove(key) /\ UNCHANGED otherThanCursor
    \/ \E key \in {"pgup", "pgdown"} : PressPage(key) /\ UNCHANGED otherThanCursor
    \/ PressTab /\ UNCHANGED otherThanCursor
    \/ PressRefresh /\ UNCHANGED otherThanCursor
    \/ \E kind \in Kinds : PressStart(kind) /\ UNCHANGED otherThanCursor
    \/ PressSlash /\ UNCHANGED otherThanCursor
    \/ PressEsc /\ UNCHANGED otherThanCursor
    \/ PressSearchEnter /\ UNCHANGED otherThanCursor
    \/ PressBackspace /\ UNCHANGED otherThanCursor
    \/ PressCtrlU /\ UNCHANGED otherThanCursor
    \/ \E rune \in QueryRunes : PressRune(rune) /\ UNCHANGED otherThanCursor
    \/ \E mode \in {"local", "remote"}, versions \in VersionLists, err \in BOOLEAN :
          GotVersions(mode, versions, err) /\ UNCHANGED otherThanCursor
    \/ \E kind \in Kinds, ok \in BOOLEAN : GotDone(kind, ok) /\ UNCHANGED otherThanCursor
    \/ \E height \in Heights : GotWindowSize(height) /\ UNCHANGED otherThanCursor

(***************************************************************************)
(* C38: whenever the list the TUI shows (the list of the mode, filtered by *)
(* the search) is not empty, the cursor is an index of it, so the version  *)
(* Enter, i and x take from under the cursor is an element of the list.    *)
(***************************************************************************)
C38_CursorInsideShownList ==
    /\ Len(currentList(ui)) > 0 =>
          ui.cursor >= 0 /\ ui.cursor < Len(currentList(ui))
    /\ ui.selected # OutOfRange

\* A workflow was started for the last of two matches of a search in a list
\* of three.
C38_Witness ==
    /\ TrimSpace(ui.searchQuery) # <<>>
    /\ Len(unfilteredList(ui)) = 3
    /\ Len(currentList(ui)) = 2
    /\ ui.cursor = 1
    /\ ui.busy
    /\ ui.selected = currentList(ui)[2]

RestResolve == pinFiles = Nil /\ cfgFile = Nil /\ res = Nil
RestWrite == destFile = Nil /\ tmpFiles = Nil /\ writers = Nil
RestExtract == xfs = Nil /\ xpc = Nil /\ xdone = Nil /\ xhist = Nil
RestInstall == cache = Nil /\ toolchains = Nil /\ ipc = Nil /\ icall = Nil
RestTui ==
    /\ m = Nil /\ workers = Nil /\ progressCh = Nil /\ doneCh = Nil
    /\ waiters = Nil /\ mailbox = Nil /\ bridge = Nil

RestService == lintBins = Nil /\ scall = Nil

RestCursor == ui = Nil /\ cmds = Nil

RestDownload == dlFiles = Nil /\ dcall = Nil /\ RestCursor

RestEntry == ecall = Nil /\ fcall = Nil /\ RestDownload

InitResolveOnly == InitResolve /\ RestWrite /\ RestExtract /\ RestInstall /\ RestTui /\ RestService /\ RestEntry

SpecResolve == InitResolveOnly /\ [][NextResolve]_vars

InitWriteOnly == InitWrite /\ RestResolve /\ RestExtract /\ RestInstall /\ RestTui /\ RestService /\ RestEntry

InitExtractOnly == InitExtract /\ RestResolve /\ RestWrite /\ RestInstall /\ RestTui /\ RestService /\ RestEntry

SpecExtract == InitExtractOnly /\ [][NextExtract]_vars

InitInstallOnly == InitInstall /\ RestResolve /\ RestWrite /\ RestExtract /\ RestTui /\ RestService /\ RestEntry

SpecInstall == InitInstallOnly /\ [][NextInstall]_vars

InitTuiOnly == InitTui /\ RestResolve /\ RestWrite /\ RestExtract /\ RestInstall /\ RestService /\ RestEntry

SpecTui == InitTuiOnly /\ [][NextTui]_vars

InitTuiLocalOnly == InitTuiLocal /\ RestResolve /\ RestWrite /\ RestExtract /\ RestInstall /\ RestService /\ RestEntry

SpecTuiLocal == InitTuiLocalOnly /\ [][NextTuiLocal]_vars

InitServiceOnly ==
    InitService /\ res = Nil /\ RestWrite /\ RestExtract /\ cache = Nil /\ ipc = Nil
                /\ icall = Nil /\ RestTui /\ RestEntry

SpecService == InitServiceOnly /\ [][NextService]_vars

SpecWrite == InitWriteOnly /\ [][NextWrite]_vars

InitEntryOnly ==
    InitEntry /\ res = Nil /\ RestWrite /\ RestExtract /\ RestInstall /\ RestTui /\ RestService
              /\ fcall = Nil /\ RestDownload

InitFunctionsOnly ==
    InitFunctions /\ RestResolve /\ RestWrite /\ RestExtract /\ RestInstall /\ RestTui
                  /\ RestService /\ ecall = Nil /\ RestDownload

SpecFunctions == InitFunctionsOnly /\ [][NextFunctions]_vars

SpecEntry == InitEntryOnly /\ [][NextEntry]_vars

InitDownloadOnly ==
    InitDownload /\ RestResolve /\ RestWrite /\ RestExtract /\ RestInstall /\ RestTui
                 /\ RestService /\ ecall = Nil /\ fcall = Nil /\ RestCursor

SpecDownload == InitDownloadOnly /\ [][NextDownload]_vars

InitCursorOnly ==
    InitCursor /\ RestResolve /\ RestWrite /\ RestExtract /\ RestInstall /\ RestTui
               /\ RestService /\ ecall = Nil /\ fcall = Nil /\ dlFiles = Nil /\ dcall = Nil

SpecCursor == InitCursorOnly /\ [][NextCursor]_vars

=============================================================================
